---- MODULE Spec2Model ----
(***************************************************************************)
(* Pizza operations dashboard: the App with its sidebar and routes, the     *)
(* integrations page (connection manager and webhook-registration form)    *)
(* with the webhook events monitor it renders, the order form, the         *)
(* integration service and the notification of AppProvider.  Every handler *)
(* is one action; every await is a position of the handler, resumed by the *)
(* action of the response; a timer is the time left to its callback,       *)
(* counted down by Tick.                                                   *)
(*                                                                         *)
(* Spec is the App.  The other specifications render one component alone,  *)
(* as the test files of the repository do, and take the steps of Next that *)
(* can happen then.                                                        *)
(***************************************************************************)
EXTENDS Integers, Sequences, FiniteSets, TLC

VARIABLES
    root,                   \* what was rendered: the App, or one component
                            \* alone as its tests render it
    route,                  \* the path the router of the App matches
    sidebarOpen,            \* useState of the App: the sidebar is shown open
    navigations,            \* number of navigations made so far
    opsLimit,               \* mutating submissions the session stops after
    itemsLimit,             \* item rows the session stops adding at
    detached,               \* pending requests whose handler belongs to a
                            \* component that was unmounted meanwhile
    \* ---- IntegrationsPage state (useState) ----
    adapters, connections, loading, error,
    selectedAdapter, credentials, formError, formSuccess, isSubmitting,
    webhookPath, webhookOptions, webhookError, webhookSuccess,
    isRegisteringWebhook,
    \* ---- positions of the page's async functions ----
    fetchOp, connectOp, disconnectOp, registerOp,
    \* ---- OrderForm state (useState) ----
    orderData, orderIsSubmitting, orderStatus, orderResponse, orderError,
    sendOp,
    \* ---- observation of the session ----
    calls,                  \* number of invocations of each service operation
    listReturned,           \* values returned by completed getConnections calls
    listOrder,              \* issue numbers of the getConnections calls: the
                            \* one each function awaits, and the one shown
    ev,                     \* the handler or response that made the last step
    \* ---- timers of the page (setTimeout of the auto-hide effects) ----
    formSuccessTimer, webhookSuccessTimer,  \* time left, or NoTimer
    formSuccessShown, webhookSuccessShown,  \* time since the notice was set
    \* ---- WebhookEventsComponent state (useState) ----
    webhookEvents, monitorLoading, monitorError, filterSource, sources,
    \* ---- the component's life, its interval and its requests ----
    monitor,                \* "absent" (not in the tree), "rendered",
                            \* "active" (effect ran) or "stopped"
    pollTimer,              \* time left to the next interval callback
    inFlight,               \* issue numbers of the getWebhooks calls pending
    elapsed,                \* time since the polling effect ran
    shownBy,                \* issue number of the call that last set the state
    \* ---- the invocations of integrationService operations ----
    client,
    \* ---- AppProvider: the global notification and its timeouts ----
    notification,           \* useState: open, message, type
    hideTimers,             \* time left of each pending auto-hide timeout
    notificationShown       \* time since showNotification opened it

appVars == <<root, route, sidebarOpen, navigations, opsLimit, itemsLimit,
             detached>>
pageVars == <<adapters, connections, loading, error, selectedAdapter,
              credentials, formError, formSuccess, isSubmitting>>
webhookVars == <<webhookPath, webhookOptions, webhookError, webhookSuccess,
                 isRegisteringWebhook>>
pageOps == <<fetchOp, connectOp, disconnectOp, registerOp>>
orderVars == <<orderData, orderIsSubmitting, orderStatus, orderResponse,
               orderError, sendOp>>
noticeVars == <<formSuccessTimer, webhookSuccessTimer, formSuccessShown,
                webhookSuccessShown>>
monitorVars == <<webhookEvents, monitorLoading, monitorError, filterSource,
                 sources, monitor, pollTimer, inFlight, elapsed, shownBy>>
notificationVars == <<notification, hideTimers, notificationShown>>
vars == <<appVars, pageVars, webhookVars, pageOps, orderVars, calls,
          listReturned, listOrder, ev, noticeVars, monitorVars, client,
          notificationVars>>

(***************************************************************************)
(* Bounds of the model.                                                    *)
(***************************************************************************)
\* mutating submissions (connect, disconnect, registerWebhook, send) a session makes
MaxOps == 2
\* mutating submissions of a session that has every form of a component
MaxSubmits == 1
\* navigations a session of the App makes
MaxNav == 2

(***************************************************************************)
(* Values.                                                                 *)
(***************************************************************************)
Null == "null"
\* err.response?.data?.message of a rejection that carries no message
NoMessage == "undefined"
\* the messages a rejection can carry: none, the empty string, a text
FailureMessages == {NoMessage, "", "Invalid API key"}

EmptyObject == [n \in {} |-> ""]

Square == [id |-> "square", requiredCredentials |-> <<"apiKey", "locationId">>]
SendGrid == [id |-> "sendgrid", requiredCredentials |-> <<"apiKey">>]
Plain == [id |-> "plain", requiredCredentials |-> <<>>]
\* the adapter lists GET /adapters can answer with
AdapterLists == {<<>>, <<Square, SendGrid>>, <<SendGrid, Plain>>}
\* the connection lists GET /connections can answer with
ConnectionLists == {<<>>, <<"conn_123">>, <<"conn_123", "conn_456">>}
\* what a user can type into a credential field
CredentialValues == {"", "k"}

\* the paths of the <Route> elements; "*" stands for every other path
Routes == {"/", "/orders", "/integrations", "/settings", "*"}
\* the paths the links of the sidebar lead to
Links == {"/", "/orders", "/integrations", "/settings"}
\* the route of a component rendered without the App
NoRoute == ""

\* <Route path="/integrations" element={<IntegrationsPage />} />, or the
\* page rendered alone
PageMounted ==
    \/ root = "App" /\ route = "/integrations"
    \/ root = "IntegrationsPage"

\* <Route path="/orders" element={<OrderForm />} />, or the form rendered
\* alone
OrderMounted ==
    \/ root = "App" /\ route = "/orders"
    \/ root = "OrderForm"

Operations == {"getAdapters", "getConnections", "connect", "disconnect",
               "send", "getWebhooks", "registerWebhook"}

Event(op, arg, ok) == [op |-> op, arg |-> arg, ok |-> ok]

Called(op) == [calls EXCEPT ![op] = @ + 1]

\* mutating submissions made so far
OpsStarted == calls["connect"] + calls["disconnect"]
              + calls["registerWebhook"] + calls["send"]

SeqToSet(s) == {s[i] : i \in 1..Len(s)}

(***************************************************************************)
(* JavaScript helpers.                                                     *)
(***************************************************************************)
\* Faulty variant: the fallback text whatever the rejection carries
OrElseDropsMessage(a, b) == b

\* a || b on strings: b when a is undefined or the empty string
OrElse(a, b) == IF a = NoMessage \/ a = "" THEN b ELSE a

\* {...obj, [k]: v}
SetKey(obj, k, v) ==
    [n \in DOMAIN obj \cup {k} |-> IF n = k THEN v ELSE obj[n]]

\* what find returns when nothing matches
NotFound == [id |-> "undefined", requiredCredentials |-> <<>>]

\* adapters.find(a => a.id === id): the first match, or NotFound
RECURSIVE FindFrom(_, _, _)
FindFrom(list, id, i) ==
    IF i > Len(list) THEN NotFound
    ELSE IF list[i].id = id THEN list[i]
    ELSE FindFrom(list, id, i + 1)

Find(list, id) == FindFrom(list, id, 1)

\* fields.forEach(field => { obj[field.name] = '' })
RECURSIVE BlankFrom(_, _, _)
BlankFrom(obj, fields, i) ==
    IF i > Len(fields) THEN obj
    ELSE BlankFrom(SetKey(obj, fields[i], ""), fields, i + 1)

\* Faulty variant: Promise.allSettled: waits for both before it settles
PromiseAllSettled(a, c) ==
    IF a = "pending" \/ c = "pending" THEN "pending"
    ELSE IF a = "fail" \/ c = "fail" THEN "rejected"
    ELSE "fulfilled"

\* Promise.all of the two initial requests
PromiseAll(a, c) ==
    IF a = "fail" \/ c = "fail" THEN "rejected"
    ELSE IF a = "ok" /\ c = "ok" THEN "fulfilled"
    ELSE "pending"

(***************************************************************************)
(* Initial state: the state after construction, before any effect runs.    *)
(***************************************************************************)
(***************************************************************************)
(* Auto-hide of the success notices.  Time is counted in units of one      *)
(* second.                                                                 *)
(***************************************************************************)
\* the delay of the auto-hide timers (5000 ms)
AutoHideDelay == 5
\* the period of the polling interval of the monitor (15000 ms)
PollInterval == 15
\* no timeout is pending
NoTimer == -1

\* useEffect(..., [notice]): when a render shows a notice that differs from
\* the one of the render before, the cleanup cancels the pending timeout and
\* the effect starts one if there is a notice; when the value is the same
\* the effect does not run
autoHideEffect(old, new, timer) ==
    IF new = old THEN timer
    ELSE IF new # Null THEN AutoHideDelay
    ELSE NoTimer

\* a pending timeout after one unit of time
Elapse(timer) == IF timer = NoTimer THEN NoTimer ELSE timer - 1

\* the time since a notice was set, after one more unit
Older(notice, shown) ==
    IF notice = Null THEN 0
    ELSE IF shown < AutoHideDelay THEN shown + 1 ELSE shown

IdleFetch == [pc |-> "init", aSt |-> "none", aVal |-> <<>>,
              cSt |-> "none", cVal |-> <<>>]
IdleConnect == [pc |-> "idle", system |-> "", credentials |-> EmptyObject,
                mut |-> "none", lists |-> 0]
IdleDisconnect == [pc |-> "idle", id |-> "", mut |-> "none", lists |-> 0]
IdleRegister == [pc |-> "idle", path |-> "",
                 options |-> [description |-> "", events |-> {}]]

InitPage ==
    /\ adapters = <<>>
    /\ connections = <<>>
    /\ loading = TRUE
    /\ error = Null
    /\ selectedAdapter = ""
    /\ credentials = EmptyObject
    /\ formError = Null
    /\ formSuccess = Null
    /\ isSubmitting = FALSE
    /\ webhookPath = ""
    /\ webhookOptions = [description |-> "", events |-> {}]
    /\ webhookError = Null
    /\ webhookSuccess = Null
    /\ isRegisteringWebhook = FALSE
    /\ fetchOp = IdleFetch
    /\ connectOp = IdleConnect
    /\ disconnectOp = IdleDisconnect
    /\ registerOp = IdleRegister
    /\ listOrder = [fetch |-> 0, connect |-> 0, disconnect |-> 0, shown |-> 0]
    /\ formSuccessTimer = NoTimer
    /\ webhookSuccessTimer = NoTimer
    /\ formSuccessShown = 0
    /\ webhookSuccessShown = 0

(***************************************************************************)
(* IntegrationsPage: what the render lets the user reach.                  *)
(***************************************************************************)
\* the page is replaced by the spinner while loading with nothing to show
PageRendered ==
    /\ PageMounted
    /\ ~(loading /\ Len(connections) = 0 /\ Len(adapters) = 0)

\* the adapter the credential inputs are rendered for
SelectedAdapterRecord == Find(adapters, selectedAdapter)

AdapterIds == {adapters[i].id : i \in 1..Len(adapters)}

(***************************************************************************)
(* Initial load: fetchData, run by the mount effect.                       *)
(***************************************************************************)
\* Faulty variant: the load error prefers the message of the rejection
LoadErrorTextFromFailure(m) ==
    OrElse(m, "Failed to load integration data. Please try again later.")

LoadErrorText(m) == "Failed to load integration data. Please try again later."

\* The render that replaces the spinner by the page has
\* <WebhookEventsComponent /> in it: the component starts from its initial
\* state and its polling effect runs (the getWebhooks call, the interval).
\* The tests of the page replace the component by a stub that does
\* nothing.
monitorFirstRender ==
    IF root = "App"
    THEN /\ webhookEvents' = <<>>
         /\ monitorLoading' = TRUE
         /\ monitorError' = Null
         /\ filterSource' = "all"
         /\ sources' = <<>>
         /\ shownBy' = 0
         /\ calls' = Called("getWebhooks")
         /\ inFlight' = inFlight \cup {calls["getWebhooks"] + 1}
         /\ pollTimer' = PollInterval
         /\ monitor' = "active"
         /\ elapsed' = 0
    ELSE UNCHANGED <<monitorVars, calls>>

fetchData ==
    /\ PageMounted
    /\ fetchOp.pc = "init"
    /\ loading' = TRUE
    /\ fetchOp' = [fetchOp EXCEPT !.pc = "awaitAll", !.aSt = "pending",
                                  !.cSt = "pending"]
    /\ calls' = [calls EXCEPT !["getAdapters"] = @ + 1,
                              !["getConnections"] = @ + 1]
    /\ listOrder' = [listOrder EXCEPT !.fetch = calls'["getConnections"]]
    /\ ev' = Event("fetchData", "", TRUE)
    /\ UNCHANGED <<appVars, adapters, connections, error, selectedAdapter,
                   credentials, formError, formSuccess, isSubmitting,
                   webhookVars, connectOp, disconnectOp, registerOp,
                   orderVars, listReturned>>
    /\ UNCHANGED <<formSuccessTimer, formSuccessShown, webhookSuccessTimer, webhookSuccessShown>>
    /\ UNCHANGED <<monitorVars>>
    /\ UNCHANGED <<client, notificationVars>>

\* fetchData after one of its two requests has answered: f is fetchOp with
\* the answer recorded, m the message of the rejection (if it is one)
fetchDataResume(f, m) ==
    IF fetchOp.pc = "awaitAll" /\ PromiseAll(f.aSt, f.cSt) = "fulfilled"
    THEN /\ adapters' = f.aVal
         /\ connections' = f.cVal
         /\ listOrder' = [listOrder EXCEPT !.shown = listOrder.fetch]
         /\ error' = Null
         /\ loading' = FALSE
         /\ fetchOp' = [f EXCEPT !.pc = "done"]
         /\ monitorFirstRender
    ELSE IF fetchOp.pc = "awaitAll" /\ PromiseAll(f.aSt, f.cSt) = "rejected"
    THEN /\ error' = LoadErrorText(m)
         /\ loading' = FALSE
         /\ fetchOp' = [f EXCEPT !.pc = "done"]
         /\ UNCHANGED <<adapters, connections, listOrder>>
         /\ monitorFirstRender
    ELSE /\ fetchOp' = f
         /\ UNCHANGED <<adapters, connections, listOrder, error, loading>>
         /\ UNCHANGED <<monitorVars, calls>>

fetchFrame ==
    UNCHANGED <<appVars, selectedAdapter, credentials, formError, formSuccess,
                isSubmitting, webhookVars, connectOp, disconnectOp,
                registerOp, orderVars>>
    /\ UNCHANGED <<formSuccessTimer, formSuccessShown, webhookSuccessTimer, webhookSuccessShown>>
    /\ UNCHANGED <<client, notificationVars>>

getAdaptersResolves(val) ==
    /\ fetchOp.aSt = "pending"
    /\ fetchDataResume([fetchOp EXCEPT !.aSt = "ok", !.aVal = val], NoMessage)
    /\ ev' = Event("getAdapters", "", TRUE)
    /\ UNCHANGED listReturned
    /\ fetchFrame

getAdaptersRejects(m) ==
    /\ fetchOp.aSt = "pending"
    /\ fetchDataResume([fetchOp EXCEPT !.aSt = "fail"], m)
    /\ ev' = Event("getAdapters", m, FALSE)
    /\ UNCHANGED listReturned
    /\ fetchFrame

initialConnectionsResolves(val) ==
    /\ fetchOp.cSt = "pending"
    /\ fetchDataResume([fetchOp EXCEPT !.cSt = "ok", !.cVal = val], NoMessage)
    /\ listReturned' = listReturned \cup {val}
    /\ ev' = Event("getConnections", "", TRUE)
    /\ fetchFrame

initialConnectionsRejects(m) ==
    /\ fetchOp.cSt = "pending"
    /\ fetchDataResume([fetchOp EXCEPT !.cSt = "fail"], m)
    /\ ev' = Event("getConnections", m, FALSE)
    /\ UNCHANGED listReturned
    /\ fetchFrame

(***************************************************************************)
(* Connect form.                                                           *)
(***************************************************************************)
\* Faulty variant: keeps what was typed into a field of the same name
initialCredentialsKeepsTyped(adapter) ==
    [n \in SeqToSet(adapter.requiredCredentials) |->
        IF n \in DOMAIN credentials THEN credentials[n] ELSE ""]

initialCredentials(adapter) ==
    IF adapter # NotFound
    THEN BlankFrom(EmptyObject, adapter.requiredCredentials, 1)
    ELSE EmptyObject

handleAdapterChange(id) ==
    /\ PageRendered
    /\ ~isSubmitting
    /\ id \in AdapterIds \cup {""}
    /\ selectedAdapter' = id
    /\ credentials' = initialCredentials(Find(adapters, id))
    /\ formError' = Null
    /\ formSuccess' = Null
    /\ formSuccessTimer' = autoHideEffect(formSuccess, formSuccess',
                                          formSuccessTimer)
    /\ formSuccessShown' = 0
    /\ ev' = Event("handleAdapterChange", id, TRUE)
    /\ UNCHANGED <<appVars, adapters, connections, loading, error, isSubmitting,
                   webhookVars, pageOps, orderVars, calls, listReturned>>
    /\ UNCHANGED <<webhookSuccessTimer, webhookSuccessShown>>
    /\ UNCHANGED <<monitorVars>>
    /\ UNCHANGED <<listOrder>>
    /\ UNCHANGED <<client, notificationVars>>

handleCredentialChange(name, value) ==
    /\ PageRendered
    /\ ~isSubmitting
    /\ selectedAdapter # ""
    /\ name \in SeqToSet(SelectedAdapterRecord.requiredCredentials)
    /\ credentials' = SetKey(credentials, name, value)
    /\ ev' = Event("handleCredentialChange", name, TRUE)
    /\ UNCHANGED <<appVars, adapters, connections, loading, error,
                   selectedAdapter, formError, formSuccess, isSubmitting,
                   webhookVars, pageOps, orderVars, calls, listReturned>>
    /\ UNCHANGED <<formSuccessTimer, formSuccessShown, webhookSuccessTimer, webhookSuccessShown>>
    /\ UNCHANGED <<monitorVars>>
    /\ UNCHANGED <<listOrder>>
    /\ UNCHANGED <<client, notificationVars>>

ConnectFallback == "Failed to connect. Please check your credentials and try again."

\* the text the catch of handleConnect shows for a rejection with message m
connectErrorText(m) == OrElse(m, ConnectFallback)

\* Faulty variant: the refresh is issued together with connect, not after it
handleConnectConcurrentRefresh ==
    /\ PageRendered
    /\ ~isSubmitting
    /\ IF selectedAdapter = ""
       THEN /\ formError' = "Please select an adapter"
            /\ UNCHANGED <<isSubmitting, connectOp, calls>>
       ELSE /\ OpsStarted < opsLimit
            /\ isSubmitting' = TRUE
            /\ formError' = Null
            /\ calls' = [calls EXCEPT !["connect"] = @ + 1,
                                      !["getConnections"] = @ + 1]
            /\ connectOp' = [pc |-> "awaitConnect", system |-> selectedAdapter,
                             credentials |-> credentials, mut |-> "pending",
                             lists |-> 1]
    /\ ev' = Event("handleConnect", selectedAdapter, selectedAdapter # "")
    /\ UNCHANGED <<appVars, adapters, connections, loading, error,
                   selectedAdapter, credentials, formSuccess, webhookVars,
                   fetchOp, disconnectOp, registerOp, orderVars, listReturned>>
    /\ UNCHANGED <<formSuccessTimer, formSuccessShown, webhookSuccessTimer, webhookSuccessShown>>
    /\ UNCHANGED <<monitorVars>>
    /\ UNCHANGED <<listOrder>>
    /\ UNCHANGED <<client, notificationVars>>

\* Faulty variant: no check that an adapter is selected
handleConnectUnvalidated ==
    /\ PageRendered
    /\ ~isSubmitting
    /\ OpsStarted < opsLimit
    /\ isSubmitting' = TRUE
    /\ formError' = Null
    /\ calls' = Called("connect")
    /\ connectOp' = [pc |-> "awaitConnect", system |-> selectedAdapter,
                     credentials |-> credentials, mut |-> "pending",
                     lists |-> 0]
    /\ ev' = Event("handleConnect", selectedAdapter, selectedAdapter # "")
    /\ UNCHANGED <<appVars, adapters, connections, loading, error,
                   selectedAdapter, credentials, formSuccess, webhookVars,
                   fetchOp, disconnectOp, registerOp, orderVars, listReturned>>
    /\ UNCHANGED <<formSuccessTimer, formSuccessShown, webhookSuccessTimer, webhookSuccessShown>>
    /\ UNCHANGED <<monitorVars>>
    /\ UNCHANGED <<listOrder>>
    /\ UNCHANGED <<client, notificationVars>>

\* The submit handler of the connect form.  While a submission is in
\* flight every control of the form is disabled, so no second one starts; a
\* submit event with no adapter selected does reach the handler, which
\* checks for it itself.
handleConnect ==
    /\ PageRendered
    /\ ~isSubmitting
    /\ IF selectedAdapter = ""
       THEN /\ formError' = "Please select an adapter"
            /\ UNCHANGED <<isSubmitting, connectOp, calls>>
       ELSE /\ OpsStarted < opsLimit
            /\ isSubmitting' = TRUE
            /\ formError' = Null
            /\ calls' = Called("connect")
            /\ connectOp' = [pc |-> "awaitConnect", system |-> selectedAdapter,
                             credentials |-> credentials, mut |-> "pending",
                             lists |-> 0]
    /\ ev' = Event("handleConnect", selectedAdapter, selectedAdapter # "")
    /\ UNCHANGED <<appVars, adapters, connections, loading, error,
                   selectedAdapter, credentials, formSuccess, webhookVars,
                   fetchOp, disconnectOp, registerOp, orderVars, listReturned>>
    /\ UNCHANGED <<formSuccessTimer, formSuccessShown, webhookSuccessTimer, webhookSuccessShown>>
    /\ UNCHANGED <<monitorVars>>
    /\ UNCHANGED <<listOrder>>
    /\ UNCHANGED <<client, notificationVars>>

\* connect resolved: the handler goes on to refresh the connections list
connectResolves ==
    /\ connectOp.pc = "awaitConnect"
    /\ connectOp' = [connectOp EXCEPT !.pc = "awaitList", !.mut = "ok",
                                      !.lists = @ + 1]
    /\ calls' = Called("getConnections")
    /\ listOrder' = [listOrder EXCEPT !.connect = calls'["getConnections"]]
    /\ ev' = Event("connect", connectOp.system, TRUE)
    /\ UNCHANGED <<appVars, pageVars, webhookVars, fetchOp, disconnectOp,
                   registerOp, orderVars, listReturned>>
    /\ UNCHANGED <<formSuccessTimer, formSuccessShown, webhookSuccessTimer, webhookSuccessShown>>
    /\ UNCHANGED <<monitorVars>>
    /\ UNCHANGED <<client, notificationVars>>

\* Faulty variant: the submitting flag is not cleared when connect fails
connectRejectsStaysBusy(m) ==
    /\ connectOp.pc = "awaitConnect"
    /\ formError' = connectErrorText(m)
    /\ connectOp' = [IdleConnect EXCEPT !.mut = "fail"]
    /\ ev' = Event("connect", m, FALSE)
    /\ UNCHANGED <<appVars, adapters, connections, loading, error,
                   selectedAdapter, credentials, formSuccess, isSubmitting,
                   webhookVars, fetchOp, disconnectOp, registerOp, orderVars,
                   calls, listReturned, noticeVars, monitorVars>>
    /\ UNCHANGED <<listOrder>>
    /\ UNCHANGED <<client, notificationVars>>

connectRejects(m) ==
    /\ connectOp.pc = "awaitConnect"
    /\ formError' = connectErrorText(m)
    /\ isSubmitting' = FALSE
    /\ connectOp' = [IdleConnect EXCEPT !.mut = "fail"]
    /\ ev' = Event("connect", m, FALSE)
    /\ UNCHANGED <<appVars, adapters, connections, loading, error,
                   selectedAdapter, credentials, formSuccess, webhookVars,
                   fetchOp, disconnectOp, registerOp, orderVars, calls,
                   listReturned>>
    /\ UNCHANGED <<formSuccessTimer, formSuccessShown, webhookSuccessTimer, webhookSuccessShown>>
    /\ UNCHANGED <<monitorVars>>
    /\ UNCHANGED <<listOrder>>
    /\ UNCHANGED <<client, notificationVars>>

\* Faulty variant: the list is patched with a connection built locally
connectRefreshPatchesList(val) ==
    /\ connectOp.pc = "awaitList"
    /\ connections' = Append(connections, "conn_" \o connectOp.system)
    /\ formSuccess' = "Successfully connected to " \o connectOp.system
    /\ formSuccessTimer' = autoHideEffect(formSuccess, formSuccess',
                                          formSuccessTimer)
    /\ formSuccessShown' = 0
    /\ selectedAdapter' = ""
    /\ credentials' = EmptyObject
    /\ isSubmitting' = FALSE
    /\ connectOp' = [IdleConnect EXCEPT !.mut = "ok", !.lists = connectOp.lists]
    /\ listReturned' = listReturned \cup {val}
    /\ ev' = Event("connectRefresh", connectOp.system, TRUE)
    /\ UNCHANGED <<appVars, adapters, loading, error, formError,
                   webhookVars, fetchOp, disconnectOp, registerOp, orderVars,
                   calls>>
    /\ UNCHANGED <<webhookSuccessTimer, webhookSuccessShown>>
    /\ UNCHANGED <<monitorVars>>
    /\ listOrder' = [listOrder EXCEPT !.connect = 0]
    /\ UNCHANGED <<client, notificationVars>>

\* the refresh after connect resolved: the rest of the try block, finally
connectRefreshResolves(val) ==
    /\ connectOp.pc = "awaitList"
    /\ connections' = val
    /\ listOrder' = [listOrder EXCEPT !.shown = listOrder.connect,
                                   !.connect = 0]
    /\ formSuccess' = "Successfully connected to " \o connectOp.system
    /\ formSuccessTimer' = autoHideEffect(formSuccess, formSuccess',
                                          formSuccessTimer)
    /\ formSuccessShown' = 0
    /\ selectedAdapter' = ""
    /\ credentials' = EmptyObject
    /\ isSubmitting' = FALSE
    /\ connectOp' = [IdleConnect EXCEPT !.mut = "ok", !.lists = connectOp.lists]
    /\ listReturned' = listReturned \cup {val}
    /\ ev' = Event("connectRefresh", connectOp.system, TRUE)
    /\ UNCHANGED <<appVars, adapters, loading, error, formError, webhookVars,
                   fetchOp, disconnectOp, registerOp, orderVars, calls>>
    /\ UNCHANGED <<webhookSuccessTimer, webhookSuccessShown>>
    /\ UNCHANGED <<monitorVars>>
    /\ UNCHANGED <<client, notificationVars>>

connectRefreshRejects(m) ==
    /\ connectOp.pc = "awaitList"
    /\ formError' = connectErrorText(m)
    /\ isSubmitting' = FALSE
    /\ connectOp' = [IdleConnect EXCEPT !.mut = "ok", !.lists = connectOp.lists]
    /\ ev' = Event("connectRefresh", m, FALSE)
    /\ UNCHANGED <<appVars, adapters, connections, loading, error,
                   selectedAdapter, credentials, formSuccess, webhookVars,
                   fetchOp, disconnectOp, registerOp, orderVars, calls,
                   listReturned>>
    /\ UNCHANGED <<formSuccessTimer, formSuccessShown, webhookSuccessTimer, webhookSuccessShown>>
    /\ UNCHANGED <<monitorVars>>
    /\ listOrder' = [listOrder EXCEPT !.connect = 0]
    /\ UNCHANGED <<client, notificationVars>>

(***************************************************************************)
(* Disconnect.                                                             *)
(***************************************************************************)
DisconnectFallback == "Failed to disconnect. Please try again."

disconnectErrorText(m) == OrElse(m, DisconnectFallback)

\* Faulty variant: the answer of window.confirm is not looked at
handleDisconnectUnconfirmed(connectionId, confirmed) ==
    /\ PageRendered
    /\ ~loading
    /\ connectionId \in SeqToSet(connections)
    /\ OpsStarted < opsLimit
    /\ loading' = TRUE
    /\ calls' = Called("disconnect")
    /\ disconnectOp' = [pc |-> "awaitDisconnect", id |-> connectionId,
                        mut |-> "pending", lists |-> 0]
    /\ ev' = Event("handleDisconnect", connectionId, confirmed)
    /\ UNCHANGED <<appVars, adapters, connections, error,
                   selectedAdapter, credentials, formError, formSuccess,
                   isSubmitting, webhookVars, fetchOp, connectOp, registerOp,
                   orderVars, listReturned>>
    /\ UNCHANGED <<formSuccessTimer, formSuccessShown, webhookSuccessTimer, webhookSuccessShown>>
    /\ UNCHANGED <<monitorVars>>
    /\ UNCHANGED <<listOrder>>
    /\ UNCHANGED <<client, notificationVars>>

\* The click handler of a connection's disconnect button (disabled while
\* loading); confirmed is what window.confirm returns.
handleDisconnect(connectionId, confirmed) ==
    /\ PageRendered
    /\ ~loading
    /\ connectionId \in SeqToSet(connections)
    /\ IF ~confirmed
       THEN UNCHANGED <<loading, disconnectOp, calls>>
       ELSE /\ OpsStarted < opsLimit
            /\ loading' = TRUE
            /\ calls' = Called("disconnect")
            /\ disconnectOp' = [pc |-> "awaitDisconnect", id |-> connectionId,
                                mut |-> "pending", lists |-> 0]
    /\ ev' = Event("handleDisconnect", connectionId, confirmed)
    /\ UNCHANGED <<appVars, adapters, connections, error, selectedAdapter,
                   credentials, formError, formSuccess, isSubmitting,
                   webhookVars, fetchOp, connectOp, registerOp, orderVars,
                   listReturned>>
    /\ UNCHANGED <<formSuccessTimer, formSuccessShown, webhookSuccessTimer, webhookSuccessShown>>
    /\ UNCHANGED <<monitorVars>>
    /\ UNCHANGED <<listOrder>>
    /\ UNCHANGED <<client, notificationVars>>

disconnectResolves ==
    /\ disconnectOp.pc = "awaitDisconnect"
    /\ disconnectOp' = [disconnectOp EXCEPT !.pc = "awaitList", !.mut = "ok",
                                            !.lists = @ + 1]
    /\ calls' = Called("getConnections")
    /\ listOrder' = [listOrder EXCEPT !.disconnect = calls'["getConnections"]]
    /\ ev' = Event("disconnect", disconnectOp.id, TRUE)
    /\ UNCHANGED <<appVars, pageVars, webhookVars, fetchOp, connectOp,
                   registerOp, orderVars, listReturned>>
    /\ UNCHANGED <<formSuccessTimer, formSuccessShown, webhookSuccessTimer, webhookSuccessShown>>
    /\ UNCHANGED <<monitorVars>>
    /\ UNCHANGED <<client, notificationVars>>

disconnectRejects(m) ==
    /\ disconnectOp.pc = "awaitDisconnect"
    /\ formError' = disconnectErrorText(m)
    /\ loading' = FALSE
    /\ disconnectOp' = [IdleDisconnect EXCEPT !.mut = "fail"]
    /\ ev' = Event("disconnect", m, FALSE)
    /\ UNCHANGED <<appVars, adapters, connections, error, selectedAdapter,
                   credentials, formSuccess, isSubmitting, webhookVars,
                   fetchOp, connectOp, registerOp, orderVars, calls,
                   listReturned>>
    /\ UNCHANGED <<formSuccessTimer, formSuccessShown, webhookSuccessTimer, webhookSuccessShown>>
    /\ UNCHANGED <<monitorVars>>
    /\ UNCHANGED <<listOrder>>
    /\ UNCHANGED <<client, notificationVars>>

disconnectRefreshResolves(val) ==
    /\ disconnectOp.pc = "awaitList"
    /\ connections' = val
    /\ listOrder' = [listOrder EXCEPT !.shown = listOrder.disconnect,
                                   !.disconnect = 0]
    /\ formSuccess' = "Successfully disconnected"
    /\ formSuccessTimer' = autoHideEffect(formSuccess, formSuccess',
                                          formSuccessTimer)
    /\ formSuccessShown' = 0
    /\ loading' = FALSE
    /\ disconnectOp' = [IdleDisconnect EXCEPT !.mut = "ok",
                                              !.lists = disconnectOp.lists]
    /\ listReturned' = listReturned \cup {val}
    /\ ev' = Event("disconnectRefresh", disconnectOp.id, TRUE)
    /\ UNCHANGED <<appVars, adapters, error, selectedAdapter, credentials,
                   formError, isSubmitting, webhookVars, fetchOp, connectOp,
                   registerOp, orderVars, calls>>
    /\ UNCHANGED <<webhookSuccessTimer, webhookSuccessShown>>
    /\ UNCHANGED <<monitorVars>>
    /\ UNCHANGED <<client, notificationVars>>

disconnectRefreshRejects(m) ==
    /\ disconnectOp.pc = "awaitList"
    /\ formError' = disconnectErrorText(m)
    /\ loading' = FALSE
    /\ disconnectOp' = [IdleDisconnect EXCEPT !.mut = "ok",
                                              !.lists = disconnectOp.lists]
    /\ ev' = Event("disconnectRefresh", m, FALSE)
    /\ UNCHANGED <<appVars, adapters, connections, error, selectedAdapter,
                   credentials, formSuccess, isSubmitting, webhookVars,
                   fetchOp, connectOp, registerOp, orderVars, calls,
                   listReturned>>
    /\ UNCHANGED <<formSuccessTimer, formSuccessShown, webhookSuccessTimer, webhookSuccessShown>>
    /\ UNCHANGED <<monitorVars>>
    /\ listOrder' = [listOrder EXCEPT !.disconnect = 0]
    /\ UNCHANGED <<client, notificationVars>>

(***************************************************************************)
(* Webhook-registration form.                                              *)
(***************************************************************************)
WebhookPaths == {"", "/api/webhooks/orders"}
WebhookDescriptions == {"", "Webhook for order notifications"}
WebhookEventChoices == {{}, {"order.created", "payment.received"}}
BlankWebhookOptions == [description |-> "", events |-> {}]

RegisterFallback == "Failed to register webhook. Please try again."

registerErrorText(m) == OrElse(m, RegisterFallback)

setWebhookPath(value) ==
    /\ PageRendered
    /\ ~isRegisteringWebhook
    /\ webhookPath' = value
    /\ ev' = Event("setWebhookPath", value, TRUE)
    /\ UNCHANGED <<appVars, pageVars, webhookOptions, webhookError,
                   webhookSuccess, isRegisteringWebhook, pageOps, orderVars,
                   calls, listReturned>>
    /\ UNCHANGED <<formSuccessTimer, formSuccessShown, webhookSuccessTimer, webhookSuccessShown>>
    /\ UNCHANGED <<monitorVars>>
    /\ UNCHANGED <<listOrder>>
    /\ UNCHANGED <<client, notificationVars>>

handleWebhookOptionChange(name, value) ==
    /\ PageRendered
    /\ ~isRegisteringWebhook
    /\ webhookOptions' = SetKey(webhookOptions, name, value)
    /\ ev' = Event("handleWebhookOptionChange", name, TRUE)
    /\ UNCHANGED <<appVars, pageVars, webhookPath, webhookError, webhookSuccess,
                   isRegisteringWebhook, pageOps, orderVars, calls,
                   listReturned>>
    /\ UNCHANGED <<formSuccessTimer, formSuccessShown, webhookSuccessTimer, webhookSuccessShown>>
    /\ UNCHANGED <<monitorVars>>
    /\ UNCHANGED <<listOrder>>
    /\ UNCHANGED <<client, notificationVars>>

handleWebhookEventsChange(options) ==
    /\ PageRendered
    /\ ~isRegisteringWebhook
    /\ webhookOptions' = [webhookOptions EXCEPT !.events = options]
    /\ ev' = Event("handleWebhookEventsChange", "", TRUE)
    /\ UNCHANGED <<appVars, pageVars, webhookPath, webhookError, webhookSuccess,
                   isRegisteringWebhook, pageOps, orderVars, calls,
                   listReturned>>
    /\ UNCHANGED <<formSuccessTimer, formSuccessShown, webhookSuccessTimer, webhookSuccessShown>>
    /\ UNCHANGED <<monitorVars>>
    /\ UNCHANGED <<listOrder>>
    /\ UNCHANGED <<client, notificationVars>>

handleRegisterWebhook ==
    /\ PageRendered
    /\ ~isRegisteringWebhook
    /\ IF webhookPath = ""
       THEN /\ webhookError' = "Please enter a webhook path"
            /\ UNCHANGED <<isRegisteringWebhook, registerOp, calls>>
       ELSE /\ OpsStarted < opsLimit
            /\ isRegisteringWebhook' = TRUE
            /\ webhookError' = Null
            /\ calls' = Called("registerWebhook")
            /\ registerOp' = [pc |-> "awaitRegister", path |-> webhookPath,
                              options |-> webhookOptions]
    /\ ev' = Event("handleRegisterWebhook", webhookPath, webhookPath # "")
    /\ UNCHANGED <<appVars, pageVars, webhookPath, webhookOptions,
                   webhookSuccess, fetchOp, connectOp, disconnectOp,
                   orderVars, listReturned>>
    /\ UNCHANGED <<formSuccessTimer, formSuccessShown, webhookSuccessTimer, webhookSuccessShown>>
    /\ UNCHANGED <<monitorVars>>
    /\ UNCHANGED <<listOrder>>
    /\ UNCHANGED <<client, notificationVars>>

registerWebhookResolves ==
    /\ registerOp.pc = "awaitRegister"
    /\ webhookSuccess' = "Successfully registered webhook at " \o registerOp.path
    /\ webhookSuccessTimer' = autoHideEffect(webhookSuccess, webhookSuccess',
                                             webhookSuccessTimer)
    /\ webhookSuccessShown' = 0
    /\ webhookPath' = ""
    /\ webhookOptions' = BlankWebhookOptions
    /\ isRegisteringWebhook' = FALSE
    /\ registerOp' = IdleRegister
    /\ ev' = Event("registerWebhook", registerOp.path, TRUE)
    /\ UNCHANGED <<appVars, pageVars, webhookError, fetchOp, connectOp,
                   disconnectOp, orderVars, calls, listReturned>>
    /\ UNCHANGED <<formSuccessTimer, formSuccessShown>>
    /\ UNCHANGED <<monitorVars>>
    /\ UNCHANGED <<listOrder>>
    /\ UNCHANGED <<client, notificationVars>>

registerWebhookRejects(m) ==
    /\ registerOp.pc = "awaitRegister"
    /\ webhookError' = registerErrorText(m)
    /\ isRegisteringWebhook' = FALSE
    /\ registerOp' = IdleRegister
    /\ ev' = Event("registerWebhook", m, FALSE)
    /\ UNCHANGED <<appVars, pageVars, webhookPath, webhookOptions,
                   webhookSuccess, fetchOp, connectOp, disconnectOp,
                   orderVars, calls, listReturned>>
    /\ UNCHANGED <<formSuccessTimer, formSuccessShown, webhookSuccessTimer, webhookSuccessShown>>
    /\ UNCHANGED <<monitorVars>>
    /\ UNCHANGED <<listOrder>>
    /\ UNCHANGED <<client, notificationVars>>

(***************************************************************************)
(* OrderForm.  Prices are in cents.                                        *)
(***************************************************************************)
\* item rows an order grows to in the sessions about the rows
MaxItems == 3
\* item rows an order grows to in the sessions that follow more submissions
MaxItemsSent == 2

BlankItem == [name |-> "", quantity |-> 1, price |-> 0]

InitialOrderData ==
    [customerName |-> "", customerEmail |-> "", customerPhone |-> "",
     items |-> <<BlankItem>>, notes |-> "", deliveryAddress |-> "",
     paymentMethod |-> "card"]

NoResponse == [orderId |-> Null, status |-> Null]
\* the confirmations POST /send/square/orders/create can answer with
OrderResponses == {[orderId |-> "order_123", status |-> "COMPLETED"]}
IdleSend == [pc |-> "idle", data |-> InitialOrderData]

\* the (name, value) pairs the user enters into the plain inputs
InputChanges ==
    {<<"customerName", "">>, <<"customerName", "John">>,
     <<"paymentMethod", "cash">>}
\* the (field, value) pairs the user enters into an item row
ItemChanges ==
    {<<"name", "">>, <<"name", "Pizza">>, <<"quantity", 0>>,
     <<"price", 1099>>}

\* the names and prices among them
RowChanges == {c \in ItemChanges : c[1] # "quantity"}

OrderFallback == "Failed to process order. Please try again."

orderErrorText(m) == OrElse(m, OrderFallback)

InitOrder ==
    /\ orderData = InitialOrderData
    /\ orderIsSubmitting = FALSE
    /\ orderStatus = Null
    /\ orderResponse = NoResponse
    /\ orderError = Null
    /\ sendOp = IdleSend

\* Faulty variant: the controls are not disabled while submitting
OrderFormEditableWhileSubmitting ==
    /\ OrderMounted
    /\ orderStatus # "success"

\* the form is rendered unless the success panel replaces it, and its
\* controls are disabled while a submission is in flight
OrderFormEditable ==
    /\ OrderMounted
    /\ orderStatus # "success"
    /\ ~orderIsSubmitting

orderFrame == UNCHANGED <<appVars, pageVars, webhookVars, pageOps, listReturned>>
    /\ UNCHANGED <<formSuccessTimer, formSuccessShown, webhookSuccessTimer, webhookSuccessShown>>
    /\ UNCHANGED <<monitorVars>>
    /\ UNCHANGED <<listOrder>>
    /\ UNCHANGED <<client, notificationVars>>

handleInputChange(name, value) ==
    /\ OrderFormEditable
    /\ orderData' = SetKey(orderData, name, value)
    /\ ev' = Event("handleInputChange", name, TRUE)
    /\ UNCHANGED <<orderIsSubmitting, orderStatus, orderResponse, orderError,
                   sendOp, calls>>
    /\ orderFrame

handleItemChange(index, field, value) ==
    /\ OrderFormEditable
    /\ index \in 1..Len(orderData.items)
    /\ orderData' = [orderData EXCEPT
                       !.items[index] = SetKey(@, field, value)]
    /\ ev' = Event("handleItemChange", field, TRUE)
    /\ UNCHANGED <<orderIsSubmitting, orderStatus, orderResponse, orderError,
                   sendOp, calls>>
    /\ orderFrame

addItem ==
    /\ OrderFormEditable
    /\ Len(orderData.items) < itemsLimit
    /\ orderData' = [orderData EXCEPT !.items = Append(@, BlankItem)]
    /\ ev' = Event("addItem", "", TRUE)
    /\ UNCHANGED <<orderIsSubmitting, orderStatus, orderResponse, orderError,
                   sendOp, calls>>
    /\ orderFrame

\* items.splice(index, 1)
Splice(items, index) ==
    [i \in 1..(Len(items) - 1) |-> IF i < index THEN items[i] ELSE items[i + 1]]

\* Faulty variant: the last item can be removed too
removeItemUnguarded(index) ==
    /\ OrderFormEditable
    /\ index \in 1..Len(orderData.items)
    /\ orderData' = [orderData EXCEPT !.items = Splice(@, index)]
    /\ ev' = Event("removeItem", ToString(index), Len(orderData.items) # 1)
    /\ UNCHANGED <<orderIsSubmitting, orderStatus, orderResponse, orderError,
                   sendOp, calls>>
    /\ orderFrame

removeItem(index) ==
    /\ OrderFormEditable
    /\ index \in 1..Len(orderData.items)
    /\ orderData' = IF Len(orderData.items) = 1
                    THEN orderData
                    ELSE [orderData EXCEPT !.items = Splice(@, index)]
    /\ ev' = Event("removeItem", ToString(index), Len(orderData.items) # 1)
    /\ UNCHANGED <<orderIsSubmitting, orderStatus, orderResponse, orderError,
                   sendOp, calls>>
    /\ orderFrame

\* items.some(item => !item.name || item.quantity < 1 || item.price <= 0)
SomeItemInvalid(items) ==
    \E i \in 1..Len(items) :
        items[i].name = "" \/ items[i].quantity < 1 \/ items[i].price <= 0

\* reduce((total, item) => total + item.quantity * item.price, 0) over the
\* items from position i on, in cents
RECURSIVE ReduceFrom(_, _, _)
ReduceFrom(items, i, total) ==
    IF i > Len(items) THEN total
    ELSE ReduceFrom(items, i + 1, total + items[i].quantity * items[i].price)

\* Faulty variant: String(amount): trailing zeros of the fraction dropped
toFixedDropsZeros(cents) ==
    IF cents % 100 = 0 THEN ToString(cents \div 100)
    ELSE IF cents % 10 = 0
    THEN ToString(cents \div 100) \o "." \o ToString((cents % 100) \div 10)
    ELSE ToString(cents \div 100) \o "."
            \o (IF cents % 100 < 10 THEN "0" ELSE "") \o ToString(cents % 100)

\* amount.toFixed(2) of an amount of whole cents: the sign of a negative
\* amount, then the digits of its magnitude
toFixed(cents) ==
    LET magnitude == IF cents < 0 THEN 0 - cents ELSE cents
    IN  (IF cents < 0 THEN "-" ELSE "")
           \o ToString(magnitude \div 100) \o "."
           \o (IF magnitude % 100 < 10 THEN "0" ELSE "")
           \o ToString(magnitude % 100)

calculateTotal == toFixed(ReduceFrom(orderData.items, 1, 0))

\* the (field, value) pairs entered into the quantity and price inputs
ItemAmounts ==
    {<<"quantity", -1>>, <<"quantity", 0>>, <<"quantity", 2>>,
     <<"quantity", 3>>, <<"price", 5>>, <<"price", 1050>>,
     <<"price", 1099>>}

\* Faulty variant: the items are not validated
handleSubmitChecksNameOnly ==
    /\ OrderFormEditable
    /\ IF orderData.customerName = ""
       THEN /\ orderError' = "Customer name is required"
            /\ UNCHANGED <<orderIsSubmitting, orderStatus, sendOp, calls>>
       ELSE /\ OpsStarted < opsLimit
            /\ orderIsSubmitting' = TRUE
            /\ orderError' = Null
            /\ orderStatus' = "processing"
            /\ calls' = Called("send")
            /\ sendOp' = [pc |-> "awaitSend", data |-> orderData]
    /\ ev' = Event("handleSubmit", "",
                   orderData.customerName # "" /\ ~SomeItemInvalid(orderData.items))
    /\ UNCHANGED <<orderData, orderResponse>>
    /\ orderFrame

handleSubmit ==
    /\ OrderFormEditable
    /\ IF orderData.customerName = ""
       THEN /\ orderError' = "Customer name is required"
            /\ UNCHANGED <<orderIsSubmitting, orderStatus, sendOp, calls>>
       ELSE IF SomeItemInvalid(orderData.items)
       THEN /\ orderError' = "All items must have a name, quantity, and price"
            /\ UNCHANGED <<orderIsSubmitting, orderStatus, sendOp, calls>>
       ELSE /\ OpsStarted < opsLimit
            /\ orderIsSubmitting' = TRUE
            /\ orderError' = Null
            /\ orderStatus' = "processing"
            /\ calls' = Called("send")
            /\ sendOp' = [pc |-> "awaitSend", data |-> orderData]
    /\ ev' = Event("handleSubmit", "",
                   orderData.customerName # "" /\ ~SomeItemInvalid(orderData.items))
    /\ UNCHANGED <<orderData, orderResponse>>
    /\ orderFrame

\* Faulty variant: the form keeps the order that was sent
sendResolvesKeepsForm(result) ==
    /\ sendOp.pc = "awaitSend"
    /\ orderResponse' = result
    /\ orderStatus' = "success"
    /\ orderIsSubmitting' = FALSE
    /\ sendOp' = IdleSend
    /\ ev' = Event("send", "", TRUE)
    /\ UNCHANGED <<orderData, orderError, calls>>
    /\ orderFrame

sendResolves(result) ==
    /\ sendOp.pc = "awaitSend"
    /\ orderResponse' = result
    /\ orderStatus' = "success"
    /\ orderData' = InitialOrderData
    /\ orderIsSubmitting' = FALSE
    /\ sendOp' = IdleSend
    /\ ev' = Event("send", "", TRUE)
    /\ UNCHANGED <<orderError, calls>>
    /\ orderFrame

\* Faulty variant: the catch resets the form as the success path does
sendRejectsResetsForm(m) ==
    /\ sendOp.pc = "awaitSend"
    /\ orderStatus' = "error"
    /\ orderError' = orderErrorText(m)
    /\ orderData' = InitialOrderData
    /\ orderIsSubmitting' = FALSE
    /\ sendOp' = IdleSend
    /\ ev' = Event("send", m, FALSE)
    /\ UNCHANGED <<orderResponse, calls>>
    /\ orderFrame

sendRejects(m) ==
    /\ sendOp.pc = "awaitSend"
    /\ orderStatus' = "error"
    /\ orderError' = orderErrorText(m)
    /\ orderIsSubmitting' = FALSE
    /\ sendOp' = IdleSend
    /\ ev' = Event("send", m, FALSE)
    /\ UNCHANGED <<orderData, orderResponse, calls>>
    /\ orderFrame

handleCloseSuccess ==
    /\ OrderMounted
    /\ orderStatus = "success"
    /\ orderStatus' = Null
    /\ orderResponse' = NoResponse
    /\ ev' = Event("handleCloseSuccess", "", TRUE)
    /\ UNCHANGED <<orderData, orderIsSubmitting, orderError, sendOp, calls>>
    /\ orderFrame

(***************************************************************************)
(* WebhookEventsComponent: the monitor of received webhook events.  It     *)
(* takes no props and shares no state with the page that renders it.       *)
(***************************************************************************)
\* the time a session of the monitor is followed for
MaxTime == 31

WebhookEvent(id, source) == [id |-> id, source |-> source]
\* the event lists GET /webhooks can answer with
WebhookSnapshots ==
    {<<>>,
     <<WebhookEvent("webhook_1", "square"), WebhookEvent("webhook_2", "sendgrid"),
       WebhookEvent("webhook_3", "square")>>,
     <<WebhookEvent("webhook_4", "Square"), WebhookEvent("webhook_1", "square")>>}

MonitorErrorText == "Failed to load webhook events. Please try again later."

InitMonitor ==
    /\ webhookEvents = <<>>
    /\ monitorLoading = TRUE
    /\ monitorError = Null
    /\ filterSource = "all"
    /\ sources = <<>>
    /\ monitor = IF root = "WebhookEventsComponent" THEN "rendered"
                ELSE "absent"
    /\ pollTimer = NoTimer
    /\ inFlight = {}
    /\ elapsed = 0
    /\ shownBy = 0

\* [...new Set(list)]: the distinct values in order of first occurrence
RECURSIVE UniqueFrom(_, _, _)
UniqueFrom(list, i, acc) ==
    IF i > Len(list) THEN acc
    ELSE IF list[i] \in SeqToSet(acc) THEN UniqueFrom(list, i + 1, acc)
    ELSE UniqueFrom(list, i + 1, Append(acc, list[i]))

\* webhooks.map(webhook => webhook.source), made unique
uniqueSources(webhooks) ==
    UniqueFrom([i \in 1..Len(webhooks) |-> webhooks[i].source], 1, <<>>)

\* what the render shows: the spinner, the error message or the event list
MonitorView ==
    IF monitorLoading THEN "loading"
    ELSE IF monitorError # Null THEN "error"
    ELSE "events"

monitorFrame ==
    UNCHANGED <<appVars, pageVars, webhookVars, pageOps, orderVars,
                listReturned, noticeVars>>
    /\ UNCHANGED <<listOrder>>
    /\ UNCHANGED <<client, notificationVars>>

\* fetchWebhookEvents up to its await: the getWebhooks call
fetchWebhookEvents ==
    /\ calls' = Called("getWebhooks")
    /\ inFlight' = inFlight \cup {calls["getWebhooks"] + 1}

\* the polling effect, run once after the first render
pollingEffect ==
    /\ monitor = "rendered"
    /\ fetchWebhookEvents
    /\ pollTimer' = PollInterval
    /\ monitor' = "active"
    /\ elapsed' = 0
    /\ ev' = Event("pollingEffect", "", TRUE)
    /\ UNCHANGED <<webhookEvents, monitorLoading, monitorError, filterSource,
                   sources, shownBy>>
    /\ monitorFrame

\* Faulty variant: no call is issued while an earlier one is pending
pollingIntervalSkipsWhenBusy ==
    /\ pollTimer = 0
    /\ IF inFlight = {} THEN fetchWebhookEvents
       ELSE UNCHANGED <<calls, inFlight>>
    /\ pollTimer' = PollInterval
    /\ ev' = Event("pollingInterval", "", TRUE)
    /\ UNCHANGED <<webhookEvents, monitorLoading, monitorError, filterSource,
                   sources, monitor, elapsed, shownBy>>
    /\ monitorFrame

\* the callback of setInterval; the interval goes on
pollingInterval ==
    /\ pollTimer = 0
    /\ fetchWebhookEvents
    /\ pollTimer' = PollInterval
    /\ ev' = Event("pollingInterval", "", TRUE)
    /\ UNCHANGED <<webhookEvents, monitorLoading, monitorError, filterSource,
                   sources, monitor, elapsed, shownBy>>
    /\ monitorFrame

\* Faulty variant: the response is applied whether or not the component is
\* still mounted
getWebhooksResolvesUnmounted(n, webhooks) ==
    /\ n \in inFlight
    /\ inFlight' = inFlight \ {n}
    /\ webhookEvents' = webhooks
    /\ sources' = uniqueSources(webhooks)
    /\ monitorError' = Null
    /\ monitorLoading' = FALSE
    /\ shownBy' = n
    /\ ev' = Event("getWebhooks", webhooks, TRUE)
    /\ UNCHANGED <<filterSource, monitor, pollTimer, elapsed, calls>>
    /\ monitorFrame

\* Faulty variant: the sources are added to the ones of earlier snapshots
getWebhooksResolvesMerging(n, webhooks) ==
    /\ n \in inFlight
    /\ inFlight' = inFlight \ {n}
    /\ IF monitor = "active"
       THEN /\ webhookEvents' = webhooks
            /\ sources' = UniqueFrom(sources \o uniqueSources(webhooks), 1, <<>>)
            /\ monitorError' = Null
            /\ monitorLoading' = FALSE
            /\ shownBy' = n
       ELSE UNCHANGED <<webhookEvents, sources, monitorError, monitorLoading,
                        shownBy>>
    /\ ev' = Event("getWebhooks", webhooks, TRUE)
    /\ UNCHANGED <<filterSource, monitor, pollTimer, elapsed, calls>>
    /\ monitorFrame

\* The call with issue number n resolved: the rest of the try block, then
\* finally.  State updates of a component that is no longer mounted are
\* dropped by React.
getWebhooksResolves(n, webhooks) ==
    /\ n \in inFlight
    /\ inFlight' = inFlight \ {n}
    /\ IF monitor = "active"
       THEN /\ webhookEvents' = webhooks
            /\ sources' = uniqueSources(webhooks)
            /\ monitorError' = Null
            /\ monitorLoading' = FALSE
            /\ shownBy' = n
       ELSE UNCHANGED <<webhookEvents, sources, monitorError, monitorLoading,
                        shownBy>>
    /\ ev' = Event("getWebhooks", webhooks, TRUE)
    /\ UNCHANGED <<filterSource, monitor, pollTimer, elapsed, calls>>
    /\ monitorFrame

\* Faulty variant: only the failure of the first load replaces the list
getWebhooksRejectsKeepsList(n) ==
    /\ n \in inFlight
    /\ inFlight' = inFlight \ {n}
    /\ IF monitor = "active" /\ monitorLoading
       THEN /\ monitorError' = MonitorErrorText
            /\ monitorLoading' = FALSE
            /\ shownBy' = n
       ELSE UNCHANGED <<monitorError, monitorLoading, shownBy>>
    /\ ev' = Event("getWebhooks", "", FALSE)
    /\ UNCHANGED <<webhookEvents, sources, filterSource, monitor, pollTimer,
                   elapsed, calls>>
    /\ monitorFrame

\* the call with issue number n was rejected: catch, then finally
getWebhooksRejects(n) ==
    /\ n \in inFlight
    /\ inFlight' = inFlight \ {n}
    /\ IF monitor = "active"
       THEN /\ monitorError' = MonitorErrorText
            /\ monitorLoading' = FALSE
            /\ shownBy' = n
       ELSE UNCHANGED <<monitorError, monitorLoading, shownBy>>
    /\ ev' = Event("getWebhooks", "", FALSE)
    /\ UNCHANGED <<webhookEvents, sources, filterSource, monitor, pollTimer,
                   elapsed, calls>>
    /\ monitorFrame

\* the source names compared without regard to case
Lower(source) == IF source = "Square" THEN "square" ELSE source

\* Faulty variant: the sources are compared without regard to case
filteredEventsIgnoringCase ==
    SelectSeq(webhookEvents,
              LAMBDA event : \/ filterSource = "all"
                             \/ Lower(event.source) = Lower(filterSource))

\* webhookEvents.filter(event => filterSource === 'all' || ...)
filteredEvents ==
    SelectSeq(webhookEvents,
              LAMBDA event : \/ filterSource = "all"
                             \/ event.source = filterSource)

\* the filter select, rendered with the event list: "all" and the sources
setFilterSource(value) ==
    /\ monitor = "active"
    /\ MonitorView = "events"
    /\ value \in {"all"} \cup SeqToSet(sources)
    /\ filterSource' = value
    /\ ev' = Event("setFilterSource", value, TRUE)
    /\ UNCHANGED <<webhookEvents, monitorLoading, monitorError, sources,
                   monitor, pollTimer, inFlight, elapsed, shownBy, calls>>
    /\ monitorFrame

\* Faulty variant: the cleanup does not clear the interval
unmountKeepsInterval ==
    /\ monitor = "active"
    /\ monitor' = "stopped"
    /\ ev' = Event("unmount", "", TRUE)
    /\ UNCHANGED <<webhookEvents, monitorLoading, monitorError, filterSource,
                   sources, pollTimer, inFlight, elapsed, shownBy, calls>>
    /\ monitorFrame

\* the component is unmounted: the cleanup of the polling effect
unmount ==
    /\ monitor = "active"
    /\ monitor' = "stopped"
    /\ pollTimer' = NoTimer
    /\ ev' = Event("unmount", "", TRUE)
    /\ UNCHANGED <<webhookEvents, monitorLoading, monitorError, filterSource,
                   sources, inFlight, elapsed, shownBy, calls>>
    /\ monitorFrame

(***************************************************************************)
(* integrationService: each operation is an async function that makes one  *)
(* axios call inside a try block.  client holds the invocations in the     *)
(* order they were made, any number of them awaiting their answer at once: *)
(* for each the requests it handed to axios, the answer of axios, what it  *)
(* wrote to the console and what its promise settled with.                 *)
(***************************************************************************)
API_BASE_URL == "/api/integration"

\* the value of an argument that is not passed
Undefined == [undefined |-> TRUE]

\* arguments the operations are invoked with
Systems == {"square"}
ClientCredentials == {[apiKey |-> "invalid-key"],
                      [apiKey |-> "test-key", locationId |-> "test-location"]}
ConnectionIds == {"conn_123"}
Endpoints == {"orders", "orders/create"}
SendData == {[customerName |-> "Ann"]}
RegisterPaths == {"/api/webhooks/orders"}
RegisterOptions == {[description |-> "Webhook for order notifications"],
                    [path |-> "/api/webhooks/other"]}

\* response bodies axios can decode for an operation
ResponseData(op) ==
    CASE op = "getAdapters" -> AdapterLists
      [] op = "getConnections" -> ConnectionLists
      [] op = "getWebhooks" -> {<<>>, <<[id |-> "wh_1", source |-> "square"]>>}
      [] OTHER -> {[success |-> TRUE], [id |-> "conn_123", status |-> "active"]}

\* the responses axios can resolve with
Responses(op) == {[data |-> d, status |-> 200] : d \in ResponseData(op)}

\* errors an axios call can reject with
HttpErrors == {[message |-> "Network Error"],
               [message |-> "Invalid credentials"]}

NoAnswer == [kind |-> "none", payload |-> <<>>]

\* invocations of the service a session makes in the model
MaxCalls == 2

InitClient == client = <<>>

\* { path, ...options }: a key of options replaces the one written before it
Spread(first, options) ==
    [k \in DOMAIN first \cup DOMAIN options |->
        IF k \in DOMAIN options THEN options[k] ELSE first[k]]

\* everything the operations of the service leave alone
clientFrame ==
    UNCHANGED <<appVars, pageVars, webhookVars, pageOps, orderVars,
                calls, listReturned, listOrder, noticeVars, monitorVars,
                notificationVars>>

\* an invocation after it called axios: it awaits the answer
Awaiting(op, args, verb, url, body) ==
    [pc |-> "awaitHttp", op |-> op, args |-> args,
     requests |-> <<[verb |-> verb, url |-> url, body |-> body]>>,
     answer |-> NoAnswer, logged |-> <<>>, value |-> <<>>]

getAdapters ==
    /\ Len(client) < MaxCalls
    /\ client' = Append(client,
          Awaiting("getAdapters", <<>>, "GET",
             API_BASE_URL \o "/adapters", Undefined))
    /\ ev' = Event("getAdapters", "", TRUE)
    /\ clientFrame

getConnections ==
    /\ Len(client) < MaxCalls
    /\ client' = Append(client,
          Awaiting("getConnections", <<>>, "GET",
             API_BASE_URL \o "/connections", Undefined))
    /\ ev' = Event("getConnections", "", TRUE)
    /\ clientFrame

connect(system, creds) ==
    /\ Len(client) < MaxCalls
    /\ client' = Append(client,
          Awaiting("connect", <<system, creds>>, "POST",
             API_BASE_URL \o "/connect/" \o system, creds))
    /\ ev' = Event("connect", system, TRUE)
    /\ clientFrame

disconnect(connectionId) ==
    /\ Len(client) < MaxCalls
    /\ client' = Append(client,
          Awaiting("disconnect", <<connectionId>>, "POST",
             API_BASE_URL \o "/disconnect/" \o connectionId,
             Undefined))
    /\ ev' = Event("disconnect", connectionId, TRUE)
    /\ clientFrame

send(system, endpoint, data) ==
    /\ Len(client) < MaxCalls
    /\ client' = Append(client,
          Awaiting("send", <<system, endpoint, data>>, "POST",
             API_BASE_URL \o "/send/" \o system \o "/"
             \o endpoint,
             data))
    /\ ev' = Event("send", system, TRUE)
    /\ clientFrame

getWebhooks ==
    /\ Len(client) < MaxCalls
    /\ client' = Append(client,
          Awaiting("getWebhooks", <<>>, "GET",
             API_BASE_URL \o "/webhooks", Undefined))
    /\ ev' = Event("getWebhooks", "", TRUE)
    /\ clientFrame

registerWebhook(path, options) ==
    /\ Len(client) < MaxCalls
    /\ client' = Append(client,
          Awaiting("registerWebhook", <<path, options>>, "POST",
             API_BASE_URL \o "/webhooks/register",
             Spread([path |-> path], options)))
    /\ ev' = Event("registerWebhook", path, TRUE)
    /\ clientFrame

\* the message the catch block of an operation writes before the error
ErrorLogText(op, args) ==
    CASE op = "getAdapters" -> "Error fetching adapters:"
      [] op = "getConnections" -> "Error fetching connections:"
      [] op = "connect" -> "Error connecting to " \o args[1] \o ":"
      [] op = "disconnect" ->
            "Error disconnecting connection " \o args[1] \o ":"
      [] op = "send" ->
            "Error sending data to " \o args[1] \o "/" \o args[2] \o ":"
      [] op = "getWebhooks" -> "Error fetching webhooks:"
      [] op = "registerWebhook" -> "Error registering webhook:"

\* axios resolved the request of invocation i: it returns response.data
httpResolves ==
    /\ \E i \in DOMAIN client :
          /\ client[i].pc = "awaitHttp"
          /\ \E response \in Responses(client[i].op) :
                client' = [client EXCEPT ![i].pc = "returned",
                                        ![i].answer = [kind |-> "response",
                                                       payload |-> response],
                                        ![i].value = response.data]
          /\ ev' = Event(client[i].op, "", TRUE)
    /\ clientFrame

\* Faulty variant: a rejected request is logged and made once more
httpRejectsRetries(err) ==
    /\ \E i \in DOMAIN client :
          /\ client[i].pc = "awaitHttp"
          /\ Len(client[i].requests) = 1
          /\ client' = [client EXCEPT
                          ![i].requests = Append(@, @[1]),
                          ![i].logged = Append(@,
                              [text |-> ErrorLogText(client[i].op,
                                                     client[i].args),
                               error |-> err])]
          /\ ev' = Event(client[i].op, err.message, FALSE)
    /\ clientFrame

\* axios rejected the request of invocation i: the catch block logs the
\* error and throws it again
httpRejects(err) ==
    /\ \E i \in DOMAIN client :
          /\ client[i].pc = "awaitHttp"
          /\ client' = [client EXCEPT
                          ![i].pc = "thrown",
                          ![i].answer = [kind |-> "error", payload |-> err],
                          ![i].logged = Append(@,
                              [text |-> ErrorLogText(client[i].op,
                                                     client[i].args),
                               error |-> err]),
                          ![i].value = err]
          /\ ev' = Event(client[i].op, err.message, FALSE)
    /\ clientFrame

(***************************************************************************)
(* AppProvider: the global notification.  showNotification starts a        *)
(* timeout on every call and keeps no handle to it, so a timeout always    *)
(* runs to its callback.                                                   *)
(***************************************************************************)
\* the delay of the auto-hide timeout (5000 ms)
NotificationDelay == 5
\* timeouts pending at a time
MaxPending == 2

NotificationMessages == {"Order saved", "Connection failed"}
\* the type argument: left out, or one of the types
NotificationTypes == {"undefined", "success", "error"}

InitNotification ==
    /\ notification = [open |-> FALSE, message |-> "", type |-> "info"]
    /\ hideTimers = <<>>
    /\ notificationShown = 0

\* everything the provider's notification functions leave alone
notificationFrame ==
    UNCHANGED <<appVars, pageVars, webhookVars, pageOps, orderVars,
                calls, listReturned, listOrder, noticeVars, monitorVars,
                client>>

\* a default parameter: used when the argument is undefined
DefaultTo(arg, default) == IF arg = "undefined" THEN default ELSE arg

showNotification(message, type) ==
    /\ Len(hideTimers) < MaxPending
    /\ notification' = [open |-> TRUE, message |-> message,
                        type |-> DefaultTo(type, "info")]
    /\ hideTimers' = Append(hideTimers, NotificationDelay)
    /\ notificationShown' = 0
    /\ ev' = Event("showNotification", message, TRUE)
    /\ notificationFrame

hideNotification ==
    /\ notification' = [notification EXCEPT !.open = FALSE]
    /\ ev' = Event("hideNotification", "", TRUE)
    /\ UNCHANGED <<hideTimers, notificationShown>>
    /\ notificationFrame

\* the callback of the oldest timeout: it closes whatever is shown
notificationTimeout ==
    /\ hideTimers # <<>>
    /\ Head(hideTimers) = 0
    /\ notification' = [notification EXCEPT !.open = FALSE]
    /\ hideTimers' = Tail(hideTimers)
    /\ ev' = Event("notificationTimeout", "", TRUE)
    /\ UNCHANGED notificationShown
    /\ notificationFrame

(***************************************************************************)
(* App: the router.  A link of the sidebar changes the path; the element   *)
(* of the route that matched is unmounted and the element of the new route *)
(* is mounted.  Unmounting discards the state of a component and runs the  *)
(* cleanups of its effects (the auto-hide timeouts, the polling interval); *)
(* a handler that awaits a response goes on when the response arrives,     *)
(* makes the calls it has left to make, and its state updates are dropped. *)
(* Mounting starts a component from its initial state and runs its mount   *)
(* effect.                                                                 *)
(***************************************************************************)
\* requests pending whose handler belongs to a mounted component
PendingOf(op) ==
    CASE op = "getAdapters" -> IF fetchOp.aSt = "pending" THEN 1 ELSE 0
      [] op = "getConnections" ->
            (IF fetchOp.cSt = "pending" THEN 1 ELSE 0)
            + (IF connectOp.pc = "awaitList" THEN 1 ELSE 0)
            + (IF disconnectOp.pc = "awaitList" THEN 1 ELSE 0)
      [] op = "connect" -> IF connectOp.pc = "awaitConnect" THEN 1 ELSE 0
      [] op = "disconnect" ->
            IF disconnectOp.pc = "awaitDisconnect" THEN 1 ELSE 0
      [] op = "registerWebhook" ->
            IF registerOp.pc = "awaitRegister" THEN 1 ELSE 0
      [] op = "send" -> IF sendOp.pc = "awaitSend" THEN 1 ELSE 0
      [] op = "getWebhooks" -> Cardinality(inFlight)

\* <Link to={to}>: the user follows a link of the sidebar to another path
\* the path changes to another one: the element shown is unmounted, the
\* element of the new path is mounted
followLink(to) ==
    /\ navigations < MaxNav
    /\ route' = to
    /\ navigations' = navigations + 1
    /\ detached' = [op \in Operations |-> detached[op] + PendingOf(op)]
    \* IntegrationsPage: unmounted, or mounted anew with its mount effect
    /\ adapters' = <<>>
    /\ connections' = <<>>
    /\ loading' = TRUE
    /\ error' = Null
    /\ selectedAdapter' = ""
    /\ credentials' = EmptyObject
    /\ formError' = Null
    /\ formSuccess' = Null
    /\ isSubmitting' = FALSE
    /\ webhookPath' = ""
    /\ webhookOptions' = BlankWebhookOptions
    /\ webhookError' = Null
    /\ webhookSuccess' = Null
    /\ isRegisteringWebhook' = FALSE
    /\ connectOp' = IdleConnect
    /\ disconnectOp' = IdleDisconnect
    /\ registerOp' = IdleRegister
    /\ formSuccessTimer' = NoTimer
    /\ webhookSuccessTimer' = NoTimer
    /\ formSuccessShown' = 0
    /\ webhookSuccessShown' = 0
    /\ IF to = "/integrations"
       THEN /\ fetchOp' = [IdleFetch EXCEPT !.pc = "awaitAll",
                                            !.aSt = "pending",
                                            !.cSt = "pending"]
            /\ calls' = [calls EXCEPT !["getAdapters"] = @ + 1,
                                      !["getConnections"] = @ + 1]
            /\ listOrder' = [fetch |-> calls'["getConnections"],
                             connect |-> 0, disconnect |-> 0, shown |-> 0]
       ELSE /\ fetchOp' = IdleFetch
            /\ listOrder' = [fetch |-> 0, connect |-> 0, disconnect |-> 0,
                             shown |-> 0]
            /\ UNCHANGED calls
    \* WebhookEventsComponent: not in the tree until the page renders
    /\ webhookEvents' = <<>>
    /\ monitorLoading' = TRUE
    /\ monitorError' = Null
    /\ filterSource' = "all"
    /\ sources' = <<>>
    /\ monitor' = "absent"
    /\ pollTimer' = NoTimer
    /\ inFlight' = {}
    /\ elapsed' = 0
    /\ shownBy' = 0
    \* OrderForm: unmounted, or mounted anew
    /\ orderData' = InitialOrderData
    /\ orderIsSubmitting' = FALSE
    /\ orderStatus' = Null
    /\ orderResponse' = NoResponse
    /\ orderError' = Null
    /\ sendOp' = IdleSend
    /\ UNCHANGED <<root, sidebarOpen, opsLimit, itemsLimit, listReturned,
                   client, notificationVars>>

\* <Link to={to}>: the user clicks a link of the sidebar; the link to the
\* path already shown leaves everything as it is
navigate(to) ==
    /\ root = "App"
    /\ to \in Links
    /\ IF to = route
       THEN UNCHANGED <<appVars, pageVars, webhookVars, pageOps, orderVars,
                        calls, listReturned, listOrder, noticeVars,
                        monitorVars, client, notificationVars>>
       ELSE followLink(to)
    /\ ev' = Event("navigate", to, TRUE)

\* the button of the sidebar: setSidebarOpen(!sidebarOpen)
toggleSidebar ==
    /\ root = "App"
    /\ sidebarOpen' = ~sidebarOpen
    /\ ev' = Event("toggleSidebar", "", TRUE)
    /\ UNCHANGED <<root, route, navigations, opsLimit, itemsLimit, detached,
                   pageVars, webhookVars, pageOps, orderVars, calls,
                   listReturned, listOrder, noticeVars, monitorVars, client,
                   notificationVars>>

\* A request of an unmounted component was answered: handleConnect and
\* handleDisconnect go on to their getConnections call; every state update
\* is dropped.
detachedResolves(op) ==
    /\ detached[op] > 0
    /\ IF op \in {"connect", "disconnect"}
       THEN /\ detached' = [detached EXCEPT ![op] = @ - 1,
                                            !["getConnections"] = @ + 1]
            /\ calls' = Called("getConnections")
       ELSE /\ detached' = [detached EXCEPT ![op] = @ - 1]
            /\ UNCHANGED calls
    /\ ev' = Event("detached", op, TRUE)
    /\ UNCHANGED <<root, route, sidebarOpen, navigations, opsLimit,
                   itemsLimit, pageVars, webhookVars, pageOps, orderVars,
                   listReturned, listOrder, noticeVars, monitorVars, client,
                   notificationVars>>

\* A request of an unmounted component was rejected: the catch block logs
\* the error; every state update is dropped.
detachedRejects(op) ==
    /\ detached[op] > 0
    /\ detached' = [detached EXCEPT ![op] = @ - 1]
    /\ ev' = Event("detached", op, FALSE)
    /\ UNCHANGED <<root, route, sidebarOpen, navigations, opsLimit,
                   itemsLimit, pageVars, webhookVars, pageOps, orderVars,
                   calls, listReturned, listOrder, noticeVars, monitorVars,
                   client, notificationVars>>

(***************************************************************************)
(* Timers and the passage of time.                                         *)
(***************************************************************************)
\* the callback of the timeout the formSuccess effect started
formSuccessTimeout ==
    /\ PageMounted
    /\ formSuccessTimer = 0
    /\ formSuccess' = Null
    /\ formSuccessTimer' = NoTimer
    /\ formSuccessShown' = 0
    /\ ev' = Event("formSuccessTimeout", "", TRUE)
    /\ UNCHANGED <<appVars, adapters, connections, loading, error,
                   selectedAdapter, credentials, formError, isSubmitting,
                   webhookVars, pageOps, orderVars, calls, listReturned,
                   webhookSuccessTimer, webhookSuccessShown>>
    /\ UNCHANGED <<monitorVars>>
    /\ UNCHANGED <<listOrder>>
    /\ UNCHANGED <<client, notificationVars>>

\* the callback of the timeout the webhookSuccess effect started
webhookSuccessTimeout ==
    /\ PageMounted
    /\ webhookSuccessTimer = 0
    /\ webhookSuccess' = Null
    /\ webhookSuccessTimer' = NoTimer
    /\ webhookSuccessShown' = 0
    /\ ev' = Event("webhookSuccessTimeout", "", TRUE)
    /\ UNCHANGED <<appVars, pageVars, webhookPath, webhookOptions,
                   webhookError, isRegisteringWebhook, pageOps, orderVars,
                   calls, listReturned, formSuccessTimer, formSuccessShown>>
    /\ UNCHANGED <<monitorVars>>
    /\ UNCHANGED <<listOrder>>
    /\ UNCHANGED <<client, notificationVars>>

\* a component was rendered and its mount effect has not run yet
MountEffectPending ==
    \/ monitor = "rendered"
    \/ PageMounted /\ fetchOp.pc = "init"

\* One unit of time passes.  A mount effect runs, and a callback that is
\* due runs, before time moves on.
Tick ==
    /\ formSuccessTimer # 0
    /\ webhookSuccessTimer # 0
    /\ pollTimer # 0
    /\ \A i \in 1..Len(hideTimers) : hideTimers[i] # 0
    /\ ~MountEffectPending
    /\ monitor \in {"active", "stopped"} => elapsed < MaxTime
    /\ hideTimers' = [i \in 1..Len(hideTimers) |-> hideTimers[i] - 1]
    /\ notificationShown' = IF notification.open THEN notificationShown + 1
                            ELSE notificationShown
    /\ UNCHANGED notification
    /\ formSuccessTimer' = Elapse(formSuccessTimer)
    /\ webhookSuccessTimer' = Elapse(webhookSuccessTimer)
    /\ pollTimer' = Elapse(pollTimer)
    /\ formSuccessShown' = Older(formSuccess, formSuccessShown)
    /\ webhookSuccessShown' = Older(webhookSuccess, webhookSuccessShown)
    /\ elapsed' = IF monitor \in {"active", "stopped"} THEN elapsed + 1
                   ELSE elapsed
    /\ ev' = Event("Tick", "", TRUE)
    /\ UNCHANGED <<appVars, pageVars, webhookVars, pageOps, orderVars,
                   calls, listReturned, webhookEvents, monitorLoading,
                   monitorError, filterSource, sources, monitor, inFlight,
                   shownBy>>
    /\ UNCHANGED <<listOrder>>
    /\ UNCHANGED <<client>>

(***************************************************************************)
(* Specifications.                                                         *)
(***************************************************************************)
\* what is rendered, before any effect ran: the App at a path, or one
\* component alone; limit is the number of mutating submissions followed,
\* rows the number of item rows an order grows to
Rendered(what, where, limit, rows) ==
    /\ root = what
    /\ route = where
    /\ sidebarOpen = TRUE
    /\ navigations = 0
    /\ opsLimit = limit
    /\ itemsLimit = rows
    /\ detached = [op \in Operations |-> 0]
    /\ InitPage
    /\ InitOrder
    /\ InitMonitor
    /\ InitClient
    /\ InitNotification
    /\ calls = [op \in Operations |-> 0]
    /\ listReturned = {}
    /\ ev = Event("init", "", TRUE)

\* The App, opened at any path.
Init == \E path \in Routes : Rendered("App", path, MaxOps, MaxItemsSent)

Next ==
    \/ fetchData
    \/ \E val \in AdapterLists : getAdaptersResolves(val)
    \/ \E m \in FailureMessages : getAdaptersRejects(m)
    \/ \E val \in ConnectionLists : initialConnectionsResolves(val)
    \/ \E m \in FailureMessages : initialConnectionsRejects(m)
    \/ \E id \in {"", "square", "sendgrid", "plain"} : handleAdapterChange(id)
    \/ \E name \in {"apiKey", "locationId"}, value \in CredentialValues :
          handleCredentialChange(name, value)
    \/ handleConnect
    \/ connectResolves
    \/ \E m \in FailureMessages : connectRejects(m)
    \/ \E val \in ConnectionLists : connectRefreshResolves(val)
    \/ \E m \in FailureMessages : connectRefreshRejects(m)
    \/ \E id \in {"conn_123", "conn_456"}, confirmed \in BOOLEAN :
          handleDisconnect(id, confirmed)
    \/ disconnectResolves
    \/ \E m \in FailureMessages : disconnectRejects(m)
    \/ \E val \in ConnectionLists : disconnectRefreshResolves(val)
    \/ \E m \in FailureMessages : disconnectRefreshRejects(m)
    \/ \E value \in WebhookPaths : setWebhookPath(value)
    \/ \E value \in WebhookDescriptions :
          handleWebhookOptionChange("description", value)
    \/ \E options \in WebhookEventChoices : handleWebhookEventsChange(options)
    \/ handleRegisterWebhook
    \/ registerWebhookResolves
    \/ \E m \in FailureMessages : registerWebhookRejects(m)
    \/ pollingInterval
    \/ \E n \in 1..MaxTime, webhooks \in WebhookSnapshots :
          getWebhooksResolves(n, webhooks)
    \/ \E n \in 1..MaxTime : getWebhooksRejects(n)
    \/ \E value \in {"all", "square", "sendgrid", "Square"} :
          setFilterSource(value)
    \/ \E c \in InputChanges : handleInputChange(c[1], c[2])
    \/ \E index \in 1..MaxItems, c \in ItemChanges :
          handleItemChange(index, c[1], c[2])
    \/ addItem
    \/ \E index \in 1..MaxItems : removeItem(index)
    \/ handleSubmit
    \/ \E result \in OrderResponses : sendResolves(result)
    \/ \E m \in FailureMessages : sendRejects(m)
    \/ handleCloseSuccess
    \/ \E to \in Links : navigate(to)
    \/ toggleSidebar
    \/ \E op \in Operations : detachedResolves(op)
    \/ \E op \in Operations : detachedRejects(op)
    \/ formSuccessTimeout
    \/ webhookSuccessTimeout
    \/ Tick

Spec == Init /\ [][Next]_vars

\* IntegrationsPage rendered alone, as its tests render it (the monitor
\* replaced by a stub): the load, the connections list and the connect
\* form.  The webhook-registration form, which reads and writes none of
\* their state, is left as it is.
InitConnections == Rendered("IntegrationsPage", NoRoute, MaxOps, 0)

NextConnections ==
    \/ fetchData
    \/ \E val \in AdapterLists : getAdaptersResolves(val)
    \/ \E m \in FailureMessages : getAdaptersRejects(m)
    \/ \E val \in ConnectionLists : initialConnectionsResolves(val)
    \/ \E m \in FailureMessages : initialConnectionsRejects(m)
    \/ \E id \in {"", "square", "sendgrid", "plain"} : handleAdapterChange(id)
    \/ \E name \in {"apiKey", "locationId"}, value \in CredentialValues :
          handleCredentialChange(name, value)
    \/ handleConnect
    \/ connectResolves
    \/ \E m \in FailureMessages : connectRejects(m)
    \/ \E val \in ConnectionLists : connectRefreshResolves(val)
    \/ \E m \in FailureMessages : connectRefreshRejects(m)
    \/ \E id \in {"conn_123", "conn_456"}, confirmed \in BOOLEAN :
          handleDisconnect(id, confirmed)
    \/ disconnectResolves
    \/ \E m \in FailureMessages : disconnectRejects(m)
    \/ \E val \in ConnectionLists : disconnectRefreshResolves(val)
    \/ \E m \in FailureMessages : disconnectRefreshRejects(m)
    \/ formSuccessTimeout
    \/ Tick

SpecConnections == InitConnections /\ [][NextConnections]_vars

\* OrderForm rendered alone, as its tests render it.
InitOrderForm == Rendered("OrderForm", NoRoute, MaxOps, MaxItemsSent)

NextOrderForm ==
    \/ \E c \in InputChanges : handleInputChange(c[1], c[2])
    \/ \E index \in 1..MaxItems, c \in ItemChanges :
          handleItemChange(index, c[1], c[2])
    \/ addItem
    \/ \E index \in 1..MaxItems : removeItem(index)
    \/ handleSubmit
    \/ \E result \in OrderResponses : sendResolves(result)
    \/ \E m \in FailureMessages : sendRejects(m)
    \/ handleCloseSuccess

SpecOrderForm == InitOrderForm /\ [][NextOrderForm]_vars

\* OrderForm rendered alone, in sessions that add more item rows, type
\* names and prices into them and submit less often.
InitRows == Rendered("OrderForm", NoRoute, MaxSubmits, MaxItems)

NextRows ==
    \/ \E c \in InputChanges : handleInputChange(c[1], c[2])
    \/ \E index \in 1..MaxItems, c \in RowChanges :
          handleItemChange(index, c[1], c[2])
    \/ addItem
    \/ \E index \in 1..MaxItems : removeItem(index)
    \/ handleSubmit
    \/ \E result \in OrderResponses : sendResolves(result)
    \/ \E m \in FailureMessages : sendRejects(m)
    \/ handleCloseSuccess

SpecRows == InitRows /\ [][NextRows]_vars

\* IntegrationsPage or OrderForm rendered alone, with every handler of the
\* component: a session types into both forms of the page and submits
\* either.  One value is typed into each input.
InitForms ==
    \E component \in {"IntegrationsPage", "OrderForm"} :
        Rendered(component, NoRoute, MaxSubmits, MaxItemsSent)

NextForms ==
    \/ fetchData
    \/ \E val \in {<<Square, SendGrid>>} : getAdaptersResolves(val)
    \/ \E m \in {NoMessage} : getAdaptersRejects(m)
    \/ \E val \in {<<>>, <<"conn_123">>} : initialConnectionsResolves(val)
    \/ \E m \in {NoMessage} : initialConnectionsRejects(m)
    \/ \E id \in {"", "square"} : handleAdapterChange(id)
    \/ \E name \in {"apiKey"}, value \in {"k"} :
          handleCredentialChange(name, value)
    \/ handleConnect
    \/ connectResolves
    \/ \E m \in FailureMessages : connectRejects(m)
    \/ \E val \in {<<>>, <<"conn_123">>} : connectRefreshResolves(val)
    \/ \E m \in {NoMessage} : connectRefreshRejects(m)
    \/ \E id \in {"conn_123"}, confirmed \in BOOLEAN :
          handleDisconnect(id, confirmed)
    \/ disconnectResolves
    \/ \E m \in FailureMessages : disconnectRejects(m)
    \/ \E val \in {<<>>, <<"conn_123">>} : disconnectRefreshResolves(val)
    \/ \E m \in {NoMessage} : disconnectRefreshRejects(m)
    \/ \E value \in {"/api/webhooks/orders"} : setWebhookPath(value)
    \/ \E value \in {"Webhook for order notifications"} :
          handleWebhookOptionChange("description", value)
    \/ \E options \in {{"order.created", "payment.received"}} :
          handleWebhookEventsChange(options)
    \/ handleRegisterWebhook
    \/ registerWebhookResolves
    \/ \E m \in FailureMessages : registerWebhookRejects(m)
    \/ \E c \in InputChanges : handleInputChange(c[1], c[2])
    \/ \E index \in 1..MaxItems, c \in ItemChanges :
          handleItemChange(index, c[1], c[2])
    \/ addItem
    \/ \E index \in 1..MaxItems : removeItem(index)
    \/ handleSubmit
    \/ \E result \in OrderResponses : sendResolves(result)
    \/ \E m \in FailureMessages : sendRejects(m)
    \/ handleCloseSuccess
    \/ formSuccessTimeout
    \/ webhookSuccessTimeout
    \/ Tick

SpecForms == InitForms /\ [][NextForms]_vars

\* WebhookEventsComponent rendered alone, as its tests render it.
InitAlone == Rendered("WebhookEventsComponent", NoRoute, 0, 0)

NextMonitor ==
    \/ pollingEffect
    \/ pollingInterval
    \/ \E n \in 1..MaxTime, webhooks \in WebhookSnapshots :
          getWebhooksResolves(n, webhooks)
    \/ \E n \in 1..MaxTime : getWebhooksRejects(n)
    \/ \E value \in {"all", "square", "sendgrid", "Square"} :
          setFilterSource(value)
    \/ unmount
    \/ Tick

SpecMonitor == InitAlone /\ [][NextMonitor]_vars

\* The item rows of the order form rendered alone, with more quantities
\* and prices.
InitItems == Rendered("OrderForm", NoRoute, 0, MaxItems)

NextItems ==
    \/ \E index \in 1..MaxItems, c \in ItemAmounts :
          handleItemChange(index, c[1], c[2])
    \/ addItem
    \/ \E index \in 1..MaxItems : removeItem(index)

SpecItems == InitItems /\ [][NextItems]_vars

\* The integration service invoked directly, as its tests do.
InitService == Rendered("integrationService", NoRoute, 0, 0)

NextService ==
    \/ getAdapters
    \/ getConnections
    \/ \E system \in Systems, creds \in ClientCredentials :
          connect(system, creds)
    \/ \E connectionId \in ConnectionIds : disconnect(connectionId)
    \/ \E system \in Systems, endpoint \in Endpoints, data \in SendData :
          send(system, endpoint, data)
    \/ getWebhooks
    \/ \E path \in RegisterPaths, options \in RegisterOptions :
          registerWebhook(path, options)
    \/ httpResolves
    \/ \E err \in HttpErrors : httpRejects(err)

SpecService == InitService /\ [][NextService]_vars

\* The provider's notification functions called by some consumer.
InitProvider == Rendered("AppProvider", NoRoute, 0, 0)

NextProvider ==
    \/ \E message \in NotificationMessages, type \in NotificationTypes :
          showNotification(message, type)
    \/ hideNotification
    \/ notificationTimeout
    \/ Tick

SpecProvider == InitProvider /\ [][NextProvider]_vars

(***************************************************************************)
(* Properties.                                                             *)
(***************************************************************************)
\* the rejections of the mutating call sites, as events
MutationFailed(e) ==
    /\ e.op \in {"connect", "connectRefresh", "disconnect",
                 "disconnectRefresh", "registerWebhook", "send"}
    /\ ~e.ok

\* the error text the call site of event e shows, and its generic fallback
ShownError(e) ==
    IF e.op \in {"connect", "connectRefresh", "disconnect", "disconnectRefresh"}
    THEN formError
    ELSE IF e.op = "registerWebhook" THEN webhookError ELSE orderError

FallbackOf(e) ==
    IF e.op \in {"connect", "connectRefresh"} THEN ConnectFallback
    ELSE IF e.op \in {"disconnect", "disconnectRefresh"} THEN DisconnectFallback
    ELSE IF e.op = "registerWebhook" THEN RegisterFallback ELSE OrderFallback

\* C1: a connect or disconnect whose mutating call is still in flight has
\* issued no getConnections call, one whose mutating call resolved has issued
\* exactly one (so the calls of a session are at most the initial one plus
\* one for each mutating call that has answered), and a session of one
\* successful connect and no disconnect has called getConnections exactly
\* twice (initial load and refresh).
C1_RefreshAfterMutation ==
    /\ calls["getConnections"] <=
          calls["getAdapters"]
          + (calls["connect"] - IF connectOp.mut = "pending" THEN 1 ELSE 0)
          + (calls["disconnect"]
               - IF disconnectOp.mut = "pending" THEN 1 ELSE 0)
    /\ connectOp.mut = "pending" => connectOp.lists = 0
    /\ connectOp.mut = "ok" => connectOp.lists = 1
    /\ disconnectOp.mut = "pending" => disconnectOp.lists = 0
    /\ disconnectOp.mut = "ok" => disconnectOp.lists = 1
    /\ (calls["connect"] = 1 /\ connectOp.mut = "ok" /\ calls["disconnect"] = 0)
         => calls["getConnections"] = 2

C1_Witness ==
    /\ calls["connect"] = 1
    /\ calls["disconnect"] = 0
    /\ connectOp.mut = "ok"
    /\ connectOp.pc = "idle"
    /\ ev = Event("connectRefresh", "square", TRUE)
    /\ calls["getConnections"] = 2

\* C2: the connections list is the initial empty list or a value some
\* completed getConnections call returned, and only the initial load and the
\* refresh of a connect or a disconnect ever change it.
C2_ListIsServerList ==
    [][/\ connections' = <<>> \/ connections' \in listReturned'
       /\ connections' # connections =>
            /\ ev'.ok
            /\ ev'.op \in {"getAdapters", "getConnections", "connectRefresh",
                           "disconnectRefresh"}]_vars

C2_Witness ==
    /\ ev = Event("connectRefresh", "square", TRUE)
    /\ connections = <<"conn_123", "conn_456">>

\* C3: a disconnect request the user declines changes nothing and calls
\* nothing, and every disconnect call is issued by a confirmed request for
\* that connection.
C3_DeclinedDisconnectIsNoOp ==
    [][/\ (ev'.op = "handleDisconnect" /\ ~ev'.ok) =>
             UNCHANGED <<pageVars, webhookVars, pageOps, orderVars, calls,
                         listReturned>>
       /\ calls'["disconnect"] # calls["disconnect"] =>
             ev' = Event("handleDisconnect", disconnectOp'.id, TRUE)]_vars

C3_Witness ==
    /\ ev = Event("handleDisconnect", "conn_123", FALSE)
    /\ calls["disconnect"] = 0
    /\ connections = <<"conn_123">>

\* C4: submitting the connect form with no adapter selected, or the webhook
\* form with an empty path, sets the validation error of that form, issues
\* no service call and does not set the submitting flag.
C4_InvalidSubmitStaysLocal ==
    [][/\ (ev'.op = "handleConnect" /\ selectedAdapter = "") =>
            /\ formError' = "Please select an adapter"
            /\ calls' = calls
            /\ ~isSubmitting'
            /\ connectOp' = connectOp
       /\ (ev'.op = "handleRegisterWebhook" /\ webhookPath = "") =>
            /\ webhookError' = "Please enter a webhook path"
            /\ calls' = calls
            /\ ~isRegisteringWebhook'
            /\ registerOp' = registerOp]_vars

C4_Witness ==
    /\ ev = Event("handleRegisterWebhook", "", FALSE)
    /\ webhookError = "Please enter a webhook path"
    /\ calls["registerWebhook"] = 0

\* C5 (as claimed): whenever the connect call succeeded, the handler ends
\* with the success notice naming the adapter and the form reset.
C5_SuccessAfterConnectResolved ==
    [][(connectOp.pc = "awaitList" /\ connectOp'.pc = "idle") =>
          /\ formSuccess' = "Successfully connected to " \o connectOp.system
          /\ selectedAdapter' = ""
          /\ credentials' = EmptyObject]_vars

\* C6: when a mutating call fails, the form it was submitted from holds what
\* it held when the call was issued (a failed disconnect, which has no form,
\* leaves both forms of the page alone).
C6_FailureKeepsForm ==
    [][MutationFailed(ev') =>
          /\ ev'.op \in {"connect", "connectRefresh"} =>
                /\ selectedAdapter' = connectOp.system
                /\ credentials' = connectOp.credentials
          /\ ev'.op \in {"disconnect", "disconnectRefresh"} =>
                UNCHANGED <<selectedAdapter, credentials, webhookPath,
                            webhookOptions>>
          /\ ev'.op = "registerWebhook" =>
                /\ webhookPath' = registerOp.path
                /\ webhookOptions' = registerOp.options
          /\ ev'.op = "send" => orderData' = sendOp.data]_vars

C6_Witness ==
    /\ ev = Event("send", NoMessage, FALSE)
    /\ orderData.customerName = "John"
    /\ Len(orderData.items) = 2
    /\ orderData.items[2].name = "Pizza"

\* C7 (as claimed): a failure that carries a message shows exactly that
\* message, and the fallback is shown only when it carries none.
C7_MessageShownIfPresent ==
    MutationFailed(ev) =>
        /\ ev.arg # NoMessage => ShownError(ev) = ev.arg
        /\ ev.arg = NoMessage => ShownError(ev) = FallbackOf(ev)

\* C7 (amended): a failure that carries a non-empty message shows exactly
\* that message; one that carries none, or an empty one, shows the fallback.
C7_NonEmptyMessageShown ==
    MutationFailed(ev) =>
        /\ ev.arg \notin {NoMessage, ""} => ShownError(ev) = ev.arg
        /\ ev.arg \in {NoMessage, ""} => ShownError(ev) = FallbackOf(ev)

C7_Witness ==
    /\ ev = Event("connect", "Invalid API key", FALSE)
    /\ formError = "Invalid API key"

\* C8: right after an adapter of the loaded list is selected, the
\* credentials hold exactly the field names of that adapter, each mapped to
\* the empty string; right after the empty option is selected they are empty.
C8_SelectionBlanksCredentials ==
    ev.op = "handleAdapterChange" =>
        /\ selectedAdapter = ev.arg
        /\ ev.arg = "" => credentials = EmptyObject
        /\ \A i \in 1..Len(adapters) :
              adapters[i].id = ev.arg =>
                 /\ DOMAIN credentials = SeqToSet(adapters[i].requiredCredentials)
                 /\ Cardinality(DOMAIN credentials)
                       = Len(adapters[i].requiredCredentials)
                 /\ \A n \in DOMAIN credentials : credentials[n] = ""

C8_Witness ==
    /\ ev = Event("handleAdapterChange", "square", TRUE)
    /\ DOMAIN credentials = {"apiKey", "locationId"}
    /\ formError = Null

\* C9 (as claimed): the load is over only when both initial requests have
\* completed or failed.
C9_LoadingUntilBothSettle ==
    /\ fetchOp.pc # "init" => fetchOp.aSt # "none" /\ fetchOp.cSt # "none"
    /\ fetchOp.pc = "awaitAll" => loading
    /\ fetchOp.pc = "done" =>
          /\ fetchOp.aSt \in {"ok", "fail"}
          /\ fetchOp.cSt \in {"ok", "fail"}

\* C9 (amended): both requests are issued together, and the load is over
\* exactly when both have succeeded or one of them has failed, the other
\* possibly still in flight.
C9_LoadingUntilAllOrFirstFailure ==
    /\ fetchOp.pc # "init" => fetchOp.aSt # "none" /\ fetchOp.cSt # "none"
    /\ fetchOp.pc = "awaitAll" =>
          /\ loading
          /\ "fail" \notin {fetchOp.aSt, fetchOp.cSt}
          /\ "pending" \in {fetchOp.aSt, fetchOp.cSt}
    /\ fetchOp.pc = "done" =>
          \/ "fail" \in {fetchOp.aSt, fetchOp.cSt}
          \/ fetchOp.aSt = "ok" /\ fetchOp.cSt = "ok"

C9_Witness ==
    /\ fetchOp.pc = "done"
    /\ fetchOp.cSt = "fail"
    /\ fetchOp.aSt = "pending"
    /\ ~loading

\* C10: once either initial request has failed, the load has ended with the
\* one generic message, with nothing loaded, whichever request failed and
\* whatever its rejection carried.
C10_LoadFailureIsGeneric ==
    "fail" \in {fetchOp.aSt, fetchOp.cSt} =>
        /\ fetchOp.pc = "done"
        /\ ~loading
        /\ error = "Failed to load integration data. Please try again later."
        /\ adapters = <<>>
        /\ connections = <<>>

C10_Witness ==
    /\ ev = Event("getConnections", "Invalid API key", FALSE)
    /\ fetchOp.aSt = "ok"
    /\ error = "Failed to load integration data. Please try again later."

\* C11 (as claimed): when the refresh that follows a successful disconnect
\* fails, the page ends with the generic load error and without a
\* disconnect-failure message.
C11_RefreshFailureIsLoadError ==
    [][(ev'.op = "disconnectRefresh" /\ ~ev'.ok) =>
          /\ error' = "Failed to load integration data. Please try again later."
          /\ formError' = formError]_vars

\* C12 (as claimed): a timer clears a success notice only when 5 time units
\* have passed since the notice was set, and a notice that has been shown
\* for 5 time units is cleared before time moves on.
C12_NoticeClearedAfterDelay ==
    [][/\ ev'.op = "formSuccessTimeout" => formSuccessShown = AutoHideDelay
       /\ ev'.op = "webhookSuccessTimeout" =>
             webhookSuccessShown = AutoHideDelay
       /\ (formSuccess # Null /\ formSuccessShown = AutoHideDelay) =>
             ev'.op # "Tick"
       /\ (webhookSuccess # Null /\ webhookSuccessShown = AutoHideDelay) =>
             ev'.op # "Tick"]_vars

\* C13: while the monitor is active the number of getWebhooks calls issued
\* is 1 + floor(t / 15) at time t after activation, once the interval
\* callback due at t has run, whatever became of the earlier calls.
C13_FetchesByTime ==
    monitor = "active" =>
        /\ pollTimer \in 0..PollInterval
        /\ calls["getWebhooks"] =
              1 + (elapsed \div PollInterval)
                - (IF pollTimer = 0 THEN 1 ELSE 0)
        /\ (elapsed = 0 /\ ev.op = "pollingEffect") => calls["getWebhooks"] = 1
        /\ (elapsed = 15 /\ ev.op = "pollingInterval") =>
              calls["getWebhooks"] = 2
        /\ (elapsed = 30 /\ ev.op = "pollingInterval") =>
              calls["getWebhooks"] = 3

C13_Witness ==
    /\ monitor = "active"
    /\ elapsed = 30
    /\ calls["getWebhooks"] = 3
    /\ inFlight = {1, 3}
    /\ monitorError # Null
    /\ shownBy = 2

\* C14: once the monitor has been deactivated it stays so, no interval is
\* pending and no step issues a getWebhooks call, however much time passes
\* and whether or not a call was in flight at deactivation.
C14_NoFetchAfterDeactivation ==
    [][monitor = "stopped" =>
          /\ pollTimer = NoTimer
          /\ calls'["getWebhooks"] = calls["getWebhooks"]
          /\ inFlight' \subseteq inFlight
          /\ monitor' = "stopped"]_vars

C14_Witness ==
    /\ monitor = "stopped"
    /\ ev.op = "Tick"
    /\ elapsed = 30
    /\ calls["getWebhooks"] = 1
    /\ inFlight = {1}

\* C15: a getWebhooks response, success or failure, that arrives after the
\* monitor was deactivated changes none of the monitor's state.
C15_LateResponseDiscarded ==
    [][(monitor = "stopped" /\ ev'.op = "getWebhooks") =>
          UNCHANGED <<webhookEvents, sources, monitorError, monitorLoading,
                      filterSource, shownBy>>]_vars

C15_Witness ==
    /\ monitor = "stopped"
    /\ ev.op = "getWebhooks"
    /\ ev.ok
    /\ Len(ev.arg) = 3
    /\ webhookEvents = <<>>
    /\ monitorLoading
    /\ inFlight = {}

\* C16 (as claimed): the response of an earlier-issued call never replaces
\* the snapshot or the error state that a later-issued call produced.
C16_SnapshotIsOfLatestPoll ==
    [][shownBy' >= shownBy]_vars

\* C17: the sources offered by the filter are exactly the distinct source
\* values of the snapshot held, each once, and a successful response leaves
\* the monitor holding exactly the list it returned.
C17_SnapshotReplacedSourcesFresh ==
    /\ SeqToSet(sources) =
          {webhookEvents[i].source : i \in 1..Len(webhookEvents)}
    /\ Len(sources) = Cardinality(SeqToSet(sources))
    /\ (ev.op = "getWebhooks" /\ ev.ok /\ monitor = "active") =>
          webhookEvents = ev.arg

C17_Witness ==
    /\ monitor = "active"
    /\ ev.op = "getWebhooks"
    /\ ev.ok
    /\ shownBy = 2
    /\ filterSource = "sendgrid"
    /\ sources = <<"Square", "square">>
    /\ Len(webhookEvents) = 2

\* C18: while the monitor is active a failed response puts it in the error
\* state, where the message is shown in place of the list; only responses
\* change the error, a failed one keeping it and a successful one clearing
\* it; and in the error state the interval goes on and its callback issues
\* the next call.
C18_ErrorUntilNextSuccess ==
    [][monitor = "active" =>
          /\ (ev'.op = "getWebhooks" /\ ~ev'.ok) =>
                /\ monitorError' = MonitorErrorText
                /\ MonitorView' = "error"
          /\ (ev'.op = "getWebhooks" /\ ev'.ok) =>
                /\ monitorError' = Null
                /\ MonitorView' = "events"
          /\ ev'.op # "getWebhooks" => monitorError' = monitorError
          /\ monitorError # Null =>
                /\ pollTimer \in 0..PollInterval
                /\ ev'.op = "Tick" => pollTimer' = pollTimer - 1
                /\ ev'.op = "pollingInterval" =>
                      calls'["getWebhooks"] = calls["getWebhooks"] + 1]_vars

C18_Witness ==
    /\ monitor = "active"
    /\ ev.op = "getWebhooks"
    /\ ~ev.ok
    /\ shownBy = 3
    /\ inFlight = {}
    /\ webhookEvents = <<>>
    /\ monitorError = MonitorErrorText
    /\ MonitorView = "error"

\* the k-th smallest member of a set of positions
KthOf(positions, k) ==
    CHOOSE i \in positions : Cardinality({j \in positions : j <= i}) = k

\* C19: the visible list is the snapshot itself when the filter is "all";
\* otherwise it holds exactly the events of the snapshot whose source equals
\* the filter value, letter case included, in the order of the snapshot.
C19_VisibleListIsFilter ==
    LET matching == {i \in 1..Len(webhookEvents) :
                        webhookEvents[i].source = filterSource}
    IN  /\ filterSource = "all" => filteredEvents = webhookEvents
        /\ filterSource # "all" =>
              /\ Len(filteredEvents) = Cardinality(matching)
              /\ \A k \in 1..Len(filteredEvents) :
                    filteredEvents[k] = webhookEvents[KthOf(matching, k)]

C19_Witness ==
    /\ filterSource = "square"
    /\ Len(webhookEvents) = 2
    /\ webhookEvents[1].source = "Square"
    /\ filteredEvents = <<WebhookEvent("webhook_1", "square")>>

\* C20: a send call is issued only by a submission of an order whose
\* customer name is non-empty and whose items all have a non-empty name, a
\* quantity of at least 1 and a price above 0; a submission of any other
\* order issues no call, sets one of the two validation messages and leaves
\* the order data as it was.
C20_OnlyValidOrderSent ==
    [][LET items == orderData.items
           valid == /\ orderData.customerName # ""
                    /\ \A i \in 1..Len(items) :
                          /\ items[i].name # ""
                          /\ items[i].quantity >= 1
                          /\ items[i].price > 0
       IN  /\ calls'["send"] # calls["send"] =>
                 /\ ev'.op = "handleSubmit"
                 /\ valid
                 /\ sendOp'.data = orderData
           /\ (ev'.op = "handleSubmit" /\ ~valid) =>
                 /\ calls' = calls
                 /\ orderError' \in
                       {"Customer name is required",
                        "All items must have a name, quantity, and price"}
                 /\ orderData' = orderData
                 /\ ~orderIsSubmitting'
                 /\ sendOp' = sendOp]_vars

C20_Witness ==
    /\ ev = Event("handleSubmit", "", FALSE)
    /\ orderData.customerName = "John"
    /\ Len(orderData.items) = 2
    /\ orderData.items[1].name = "Pizza"
    /\ orderData.items[1].price = 1099
    /\ orderData.items[2].name = "Pizza"
    /\ orderData.items[2].price = 0
    /\ orderError = "All items must have a name, quantity, and price"
    /\ calls["send"] = 0

\* C21: the order always holds at least one item; a remove request made
\* when one item remains changes nothing; a remove at position i of a longer
\* list deletes the item at i and keeps the others, in order, and the rest
\* of the order.
C21_AtLeastOneItem ==
    [][/\ Len(orderData.items) >= 1
       /\ Len(orderData'.items) >= 1
       /\ ev'.op = "removeItem" =>
             LET items == orderData.items
                 n == Len(items)
             IN  IF n = 1 THEN orderData' = orderData
                 ELSE \E i \in 1..n :
                        /\ ev'.arg = ToString(i)
                        /\ Len(orderData'.items) = n - 1
                        /\ \A j \in 1..(n - 1) :
                              orderData'.items[j] =
                                 items[IF j < i THEN j ELSE j + 1]
                        /\ [orderData' EXCEPT !.items = items] = orderData]_vars

\* the second of three rows was removed: the first and the third are left,
\* in that order
C21_Witness ==
    /\ ev = Event("removeItem", "2", TRUE)
    /\ Len(orderData.items) = 2
    /\ orderData.items[1] = [name |-> "Pizza", quantity |-> 1, price |-> 0]
    /\ orderData.items[2] = [name |-> "", quantity |-> 1, price |-> 1099]
    /\ orderData.customerName = "John"

\* C22: right after a send succeeded the confirmation that came back is
\* stored and shown (the success panel replaces the form), and the order
\* data is the initial one: text fields empty, payment method card, one
\* item with name "", quantity 1 and price 0.
C22_SuccessResetsForm ==
    (ev.op = "send" /\ ev.ok) =>
        /\ orderStatus = "success"
        /\ orderResponse \in OrderResponses
        /\ orderResponse.orderId = "order_123"
        /\ ~orderIsSubmitting
        /\ orderData =
              [customerName |-> "", customerEmail |-> "",
               customerPhone |-> "", notes |-> "", deliveryAddress |-> "",
               paymentMethod |-> "card",
               items |-> <<[name |-> "", quantity |-> 1, price |-> 0]>>]

C22_Witness ==
    /\ ev = Event("send", "", TRUE)
    /\ orderStatus = "success"
    /\ calls["send"] = 2
    /\ orderData.paymentMethod = "card"
    /\ Len(orderData.items) = 1

\* C23: a submission is in flight exactly while the submitting flag is set
\* and exactly while the processing indication is shown; while it is, no
\* handler of the form runs, so the order data stays as sent and no second
\* send is issued, until the response or the failure arrives.
C23_InFlightFormIsInert ==
    [][/\ (sendOp.pc = "awaitSend") = orderIsSubmitting
       /\ (sendOp.pc = "awaitSend") = (orderStatus = "processing")
       /\ (sendOp'.pc = "awaitSend") = (orderStatus' = "processing")
       /\ sendOp.pc = "awaitSend" =>
             /\ ev'.op = "send"
             /\ orderData = sendOp.data
             /\ calls'["send"] = calls["send"]
             /\ sendOp'.pc = "idle"
       /\ calls'["send"] \in {calls["send"], calls["send"] + 1}
       /\ calls'["send"] # calls["send"] => sendOp.pc = "idle"]_vars

C23_Witness ==
    /\ sendOp.pc = "awaitSend"
    /\ orderIsSubmitting
    /\ orderStatus = "processing"
    /\ calls["send"] = 2
    /\ orderError = Null
    /\ Len(orderData.items) = 2

\* the sum of quantity x price over the first n items
RECURSIVE SumOfFirst(_, _)
SumOfFirst(items, n) ==
    IF n = 0 THEN 0
    ELSE SumOfFirst(items, n - 1) + items[n].quantity * items[n].price

DecimalDigit == <<"0", "1", "2", "3", "4", "5", "6", "7", "8", "9">>

\* C24: the displayed total is the sum over the items of quantity x price,
\* written with a minus sign when it is negative, the whole part of its
\* magnitude, a point and exactly two decimal digits; one item with
\* quantity 2 and price 10.99 gives "21.98".
C24_TotalIsSumTwoDecimals ==
    LET total == SumOfFirst(orderData.items, Len(orderData.items))
        size == IF total < 0 THEN 0 - total ELSE total
    IN  /\ calculateTotal =
              (IF total < 0 THEN "-" ELSE "")
                 \o ToString(size \div 100) \o "."
                 \o DecimalDigit[((size \div 10) % 10) + 1]
                 \o DecimalDigit[(size % 10) + 1]
        /\ (/\ Len(orderData.items) = 1
            /\ orderData.items[1].quantity = -1
            /\ orderData.items[1].price = 1099) => calculateTotal = "-10.99"
        /\ (/\ Len(orderData.items) = 1
            /\ orderData.items[1].quantity = -1
            /\ orderData.items[1].price = 5) => calculateTotal = "-0.05"
        /\ (/\ Len(orderData.items) = 1
            /\ orderData.items[1].quantity = 2
            /\ orderData.items[1].price = 1099) => calculateTotal = "21.98"

C24_Witness ==
    /\ Len(orderData.items) = 2
    /\ orderData.items[1].quantity = 2
    /\ orderData.items[1].price = 1099
    /\ orderData.items[2].quantity = 3
    /\ orderData.items[2].price = 1050
    /\ calculateTotal = "53.48"

\* C26 (as claimed): the success notice and the error message of the
\* connect section are never both set.
C26_SuccessAndErrorExclusive ==
    formSuccess = Null \/ formError = Null

\* C27 (as claimed): the selected filter value is "all" or one of the
\* current sources, so the visible list is empty only when the snapshot is.
C27_FilterIsKnownSource ==
    /\ filterSource = "all" \/ filterSource \in SeqToSet(sources)
    /\ filteredEvents = <<>> => webhookEvents = <<>>

\* C29: when the connect or the disconnect call itself fails, no
\* getConnections call is issued for that operation and the connections list
\* stays as it was; the submitting flag is set exactly while a connect is
\* under way and, once the page has loaded, the loading flag exactly while a
\* disconnect is, so each is cleared by every outcome.
C29_FailedCallSkipsRefresh ==
    [][/\ (ev'.op \in {"connect", "disconnect"} /\ ~ev'.ok) =>
             /\ calls'["getConnections"] = calls["getConnections"]
             /\ connections' = connections
       /\ (ev'.op = "connect" /\ ~ev'.ok) =>
             /\ connectOp'.pc = "idle"
             /\ connectOp'.lists = 0
       /\ (ev'.op = "disconnect" /\ ~ev'.ok) =>
             /\ disconnectOp'.pc = "idle"
             /\ disconnectOp'.lists = 0
       /\ ev'.op \in {"connect", "connectRefresh"} =>
             isSubmitting' = (ev'.op = "connect" /\ ev'.ok)
       /\ ev'.op \in {"disconnect", "disconnectRefresh"} =>
             loading' = (ev'.op = "disconnect" /\ ev'.ok)
       /\ isSubmitting' = (connectOp'.pc # "idle")
       /\ fetchOp'.pc = "done" => loading' = (disconnectOp'.pc # "idle")]_vars

C29_Witness ==
    /\ ev = Event("disconnect", NoMessage, FALSE)
    /\ ~loading
    /\ formError = DisconnectFallback
    /\ connections = <<"conn_123", "conn_456">>
    /\ calls["getConnections"] = 1
    /\ disconnectOp.pc = "idle"

(***************************************************************************)
(* C28: in the Connection Manager, under any interleaving of connect and   *)
(* disconnect, the connections list is the response of the most recently   *)
(* issued getConnections call that succeeded: the response of a refresh    *)
(* issued earlier never overwrites the response of one issued later, so    *)
(* the issue number of the call whose response is shown never goes down.   *)
(* The code does not keep it: the connect button waits for isSubmitting    *)
(* and the disconnect buttons for loading, so a connect and a disconnect   *)
(* can be in flight together and each sets the list when its own refresh   *)
(* answers, whatever was issued since.                                     *)
(***************************************************************************)
C28_LaterRefreshWins ==
    [][listOrder'.shown >= listOrder.shown]_vars

(***************************************************************************)
(* C25: each invocation of an operation of the integration service makes   *)
(* exactly one HTTP request, with the verb and the path of the operation   *)
(* under /api/integration; when the request succeeds the operation returns *)
(* the response body unchanged; when it fails the operation logs the       *)
(* failure once and throws the same failure, and makes no second request.  *)
(***************************************************************************)
\* verb and path of each operation, as the HTTP interface lists them
HttpInterface(op, args) ==
    CASE op = "getAdapters" -> <<"GET", "/api/integration/adapters">>
      [] op = "getConnections" -> <<"GET", "/api/integration/connections">>
      [] op = "connect" -> <<"POST", "/api/integration/connect/" \o args[1]>>
      [] op = "disconnect" ->
            <<"POST", "/api/integration/disconnect/" \o args[1]>>
      [] op = "send" ->
            <<"POST",
              "/api/integration/send/" \o args[1] \o "/" \o args[2]>>
      [] op = "getWebhooks" -> <<"GET", "/api/integration/webhooks">>
      [] op = "registerWebhook" ->
            <<"POST", "/api/integration/webhooks/register">>

C25_OneRequestBodyOrSameFailure ==
    \A i \in DOMAIN client :
        /\ Len(client[i].requests) = 1
        /\ <<client[i].requests[1].verb, client[i].requests[1].url>>
               = HttpInterface(client[i].op, client[i].args)
        /\ client[i].pc = "awaitHttp" => client[i].logged = <<>>
        /\ client[i].pc = "returned" =>
              /\ client[i].answer.kind = "response"
              /\ client[i].value = client[i].answer.payload.data
              /\ client[i].logged = <<>>
        /\ client[i].pc = "thrown" =>
              /\ client[i].answer.kind = "error"
              /\ client[i].value = client[i].answer.payload
              /\ Len(client[i].logged) = 1
              /\ client[i].logged[1].error = client[i].answer.payload

\* getAdapters still awaits its answer when a send to an endpoint with two
\* segments, made after it, failed and was thrown on
C25_Witness ==
    /\ Len(client) = 2
    /\ client[1].op = "getAdapters"
    /\ client[1].pc = "awaitHttp"
    /\ client[2].pc = "thrown"
    /\ client[2].op = "send"
    /\ client[2].requests
           = <<[verb |-> "POST",
                url |-> "/api/integration/send/square/orders/create",
                body |-> [customerName |-> "Ann"]]>>
    /\ client[2].value = [message |-> "Network Error"]
    /\ client[2].logged
           = <<[text |-> "Error sending data to square/orders/create:",
                error |-> [message |-> "Network Error"]]>>

(***************************************************************************)
(* C30: a global notification opened by showNotification stays open until  *)
(* 5 seconds after that call or until hideNotification is called: the      *)
(* timeout of an earlier notification never closes one shown later, so an  *)
(* open notification is closed only by hideNotification or when it has     *)
(* been shown for the whole delay.  The code does not keep it: each call   *)
(* starts a timeout that is never cleared and whose callback closes        *)
(* whatever notification is open.                                          *)
(***************************************************************************)
C30_OpenForWholeDelay ==
    [][notification.open /\ ~notification'.open
         => \/ ev'.op = "hideNotification"
            \/ notificationShown = NotificationDelay]_vars
====
